---- MODULE Spec2Model ----
(***************************************************************************)
(* pyrqlite: the DB-API cursor (parameter binding, request, result         *)
(* decoding, fetching) and the Row it hands out, the Connection's          *)
(* transport (retries, redirects, close, ping) and the adapter and         *)
(* converter registries of pyrqlite.extensions, as a state machine.        *)
(*                                                                         *)
(* A text that the code takes apart (a column name, a declared type, an    *)
(* adapted value) is the sequence of its characters.                       *)
(* A statement is a sequence of lexemes: single characters, and keywords   *)
(* ("select", "update", ...) that stand for a run of letters.  A Python    *)
(* optional (a missing dictionary key, None) is a sequence of length at    *)
(* most one: <<>> is "absent", <<x>> is "x".                               *)
(***************************************************************************)
EXTENDS Integers, Sequences, FiniteSets, TLC

\* ------------------------------------------------------------- bounds
MaxBody == 4        \* lexemes of a drawn statement after its keyword
MaxParams == 2      \* length of a drawn parameter sequence
MaxBatch == 2       \* parameter sets of a drawn executemany batch
MaxRows == 2        \* rows of a drawn result set
MaxAffected == 2    \* rows_affected of one drawn result entry
MaxSize == 2        \* size argument of fetchmany, and arraysize
MaxCols == 2        \* pairs of a drawn Row
MaxHops == 2        \* redirects the cluster answers one request with
MaxRedirects == 1   \* the largest finite max_redirects of a connection
MaxLiteral == 4     \* characters of a drawn statement with string literals

\* ============================================================ registries
\* The tables of pyrqlite.extensions, which every connection of the process
\* shares and register_adapter and register_converter change.
VARIABLES
    adapters,           \* extensions.adapters: type |-> adapter function
    converters          \* extensions.converters: type name |-> converter function

registries == <<adapters, converters>>

\* ------------------------------------------------------------ lexemes
Letters == {"a", "b"}
Keywords == {"select", "PRAGMA", "update", "DELETE", "insert", "create"}
Punctuation == {"?", ":", "'", "\"", "\\", " ", "1"}
Lexemes == Letters \cup Keywords \cup Punctuation

\* [a-zA-Z]+ : a lexeme made of letters only
IsAlpha(c) == c \in Letters \cup Keywords
\* \w : letters, digits and the underscore
IsWordChar(c) == IsAlpha(c) \/ c = "1"
\* str.split(None): the whitespace that separates tokens
IsSpace(c) == c = " "

\* str.upper() of one lexeme
upper(c) ==
    CASE c = "select" -> "SELECT"
      [] c = "update" -> "UPDATE"
      [] c = "insert" -> "INSERT"
      [] c = "create" -> "CREATE"
      [] c = "a" -> "A"
      [] c = "b" -> "B"
      [] OTHER -> c

None == <<>>
Some(x) == <<x>>

\* Op(value), with the value worked out once before Op uses it
Strict(value, Op(_)) == CHOOSE result \in {Op(v) : v \in {value}} : TRUE

\* ------------------------------------------------- Cursor._strip_strings
RECURSIVE StripLoop(_, _, _, _, _, _)
StripLoop(operation, i, in_single_quote, in_double_quote, escape, result) ==
    IF i > Len(operation) THEN result
    ELSE LET char == operation[i] IN
         IF escape
         THEN StripLoop(operation, i + 1, in_single_quote, in_double_quote, FALSE, result)
         ELSE IF char = "\\"
         THEN StripLoop(operation, i + 1, in_single_quote, in_double_quote, TRUE, result)
         ELSE IF char = "'" /\ ~in_double_quote
         THEN StripLoop(operation, i + 1, ~in_single_quote, in_double_quote, FALSE, result)
         ELSE IF char = "\"" /\ ~in_single_quote
         THEN StripLoop(operation, i + 1, in_single_quote, ~in_double_quote, FALSE, result)
         ELSE IF ~in_single_quote /\ ~in_double_quote
         THEN StripLoop(operation, i + 1, in_single_quote, in_double_quote, FALSE,
                        Append(result, char))
         ELSE StripLoop(operation, i + 1, in_single_quote, in_double_quote, FALSE, result)

\* A variant of the loop in which a backslash is a character like any other.
RECURSIVE StripLoop_no_escape(_, _, _, _, _)
StripLoop_no_escape(operation, i, in_single_quote, in_double_quote, result) ==
    IF i > Len(operation) THEN result
    ELSE LET char == operation[i] IN
         IF char = "'" /\ ~in_double_quote
         THEN StripLoop_no_escape(operation, i + 1, ~in_single_quote, in_double_quote,
                                  result)
         ELSE IF char = "\"" /\ ~in_single_quote
         THEN StripLoop_no_escape(operation, i + 1, in_single_quote, ~in_double_quote,
                                  result)
         ELSE IF ~in_single_quote /\ ~in_double_quote
         THEN StripLoop_no_escape(operation, i + 1, in_single_quote, in_double_quote,
                                  Append(result, char))
         ELSE StripLoop_no_escape(operation, i + 1, in_single_quote, in_double_quote,
                                  result)

_strip_strings_no_escape(operation) ==
    StripLoop_no_escape(operation, 1, FALSE, FALSE, <<>>)

_strip_strings(operation) == StripLoop(operation, 1, FALSE, FALSE, FALSE, <<>>)

\* --------------------------------------------- Cursor._get_named_params
\* The regular expression (:{1}[a-zA-Z]+?\b), as re.findall scans it: a colon,
\* then the run of letters after it, which must end at a word boundary (the
\* lazy +? can stop nowhere else); the scan goes on after a match, and one
\* character further where the colon starts no match.
RECURSIVE LetterRunEnd(_, _)
LetterRunEnd(s, i) ==
    IF i < Len(s) /\ IsAlpha(s[i + 1]) THEN LetterRunEnd(s, i + 1) ELSE i

RECURSIVE NamedFindall(_, _)
NamedFindall(s, i) ==
    IF i > Len(s) THEN <<>>
    ELSE IF s[i] = ":" /\ i < Len(s) /\ IsAlpha(s[i + 1])
    THEN LET e == LetterRunEnd(s, i + 1) IN
         IF e = Len(s) \/ ~IsWordChar(s[e + 1])
         THEN <<SubSeq(s, i + 1, e)>> \o NamedFindall(s, e + 1)
         ELSE NamedFindall(s, i + 1)
    ELSE NamedFindall(s, i + 1)

_get_named_params(operation) == NamedFindall(_strip_strings(operation), 1)

\* --------------------------------------------- Cursor._get_qmark_params
IsQmark(c) == c = "?"

_get_qmark_params(operation) == SelectSeq(_strip_strings(operation), IsQmark)

\* ------------------------------------------------------- Python values
\* A value is its exact type and what it holds: an integer for int and
\* float (the floats here are whole), a truth value for bool, the
\* characters for str and bytes, <<year, month, day>> for date.  "object" is
\* a class with no adapter and neither __adapt__ nor __conform__.
PyValue(type, val) == [type |-> type, val |-> val]
PyInt(n) == PyValue("int", n)
PyFloat(n) == PyValue("float", n)
PyBool(b) == PyValue("bool", b)
PyStr(chars) == PyValue("str", chars)
PyBytes(chars) == PyValue("bytes", chars)
PyNone == PyValue("NoneType", <<>>)
PyDate(year, month, day) == PyValue("date", <<year, month, day>>)
PyObject == PyValue("object", <<>>)
\* an instance of a caller's class: its value is the methods of PEP 246 the
\* class defines (PyObject defines none)
PyInstance(class, methods) == PyValue(class, methods)

\* the values the statements of the binder's inputs are run with
AStr == PyStr(<<"a">>)
AnInt == PyInt(5)

\* parameters: None, a sequence (tuple, list, any non-dict with __len__ and
\* __getitem__), or a dict (or dict subclass; "missing" is what its
\* __missing__ returns, absent when it has none and raises KeyError).
NoParameters ==
    [kind |-> "None", items |-> <<>>, entries |-> <<>>, missing |-> None]
SeqParameters(items) ==
    [kind |-> "sequence", items |-> items, entries |-> <<>>, missing |-> None]
DictParameters(entries, missing) ==
    [kind |-> "dict", items |-> <<>>, entries |-> entries, missing |-> missing]

\* isinstance(parameters, dict)
IsDict(parameters) == parameters.kind = "dict"

\* parameters[key] of a dict: the value, or KeyError
DictGetItem(parameters, key) ==
    IF key \in DOMAIN parameters.entries
    THEN [exc |-> "none", value |-> parameters.entries[key]]
    ELSE IF parameters.missing # None
    THEN [exc |-> "none", value |-> parameters.missing[1]]
    ELSE [exc |-> "KeyError", value |-> PyNone]

\* ------------------------------------------------------------- text
\* str(n) of an int n
Digits == <<"0", "1", "2", "3", "4", "5", "6", "7", "8", "9">>
RECURSIVE Decimal(_)
Decimal(n) ==
    IF n < 0 THEN <<"-">> \o Decimal(-n)
    ELSE IF n < 10 THEN <<Digits[n + 1]>>
    ELSE Decimal(n \div 10) \o <<Digits[(n % 10) + 1]>>

\* "%02d" % n, "%04d" % n
RECURSIVE ZeroPad(_, _)
ZeroPad(chars, width) ==
    IF Len(chars) >= width THEN chars ELSE ZeroPad(<<"0">> \o chars, width)

\* int(s) of a str s: decimal digits only, or ValueError
RECURSIVE DigitsValue(_, _)
DigitsValue(chars, acc) ==
    IF chars = <<>> THEN acc
    ELSE DigitsValue(Tail(chars),
                     10 * acc + (CHOOSE d \in 0..9 : Digits[d + 1] = Head(chars)))

IsDigit(c) == \E d \in 1..10 : Digits[d] = c

int(chars) ==
    IF chars # <<>> /\ \A i \in 1..Len(chars) : IsDigit(chars[i])
    THEN [exc |-> "none", value |-> DigitsValue(chars, 0)]
    ELSE [exc |-> "ValueError", value |-> 0]

\* s.replace("'", "''")
RECURSIVE DoubleQuotes(_)
DoubleQuotes(chars) ==
    IF chars = <<>> THEN <<>>
    ELSE (IF Head(chars) = "'" THEN <<"'", "'">> ELSE <<Head(chars)>>)
         \o DoubleQuotes(Tail(chars))

\* codecs.encode(value, 'hex') of the bytes drawn here
HexOf(c) ==
    CASE c = "a" -> <<"6", "1">>
      [] c = "b" -> <<"6", "2">>
      [] c = "x" -> <<"7", "8">>

RECURSIVE Hex(_)
Hex(chars) == IF chars = <<>> THEN <<>> ELSE HexOf(Head(chars)) \o Hex(Tail(chars))

\* ------------------------------------------------ extensions._escape_string
_escape_string(value) ==
    IF value.type = "bytes"
    THEN <<"X", "'">> \o Hex(value.val) \o <<"'">>
    ELSE <<"'">> \o DoubleQuotes(value.val) \o <<"'">>

\* --------------------------------------------------- extensions._adapt_date
\* val.isoformat()
_adapt_date(val) ==
    PyStr(ZeroPad(Decimal(val.val[1]), 4) \o <<"-">> \o ZeroPad(Decimal(val.val[2]), 2)
          \o <<"-">> \o ZeroPad(Decimal(val.val[3]), 2))

\* -------------------------------------------------- extensions.adapters
\* The table as the module builds it, each function by a name: "identity"
\* is lambda x: x, "none" is lambda x: None, "encode" is
\* lambda x: x.encode('utf-8').
_default_adapters ==
    [t \in {"bytes", "float", "int", "bool", "str", "NoneType", "date"} |->
        CASE t \in {"bytes", "float", "int"} -> "identity"
          [] t = "bool" -> "int"
          [] t = "str" -> "encode"
          [] t = "NoneType" -> "none"
          [] t = "date" -> "_adapt_date"]

\* adapter(value); "quote" and "cast" are adapters of the caller:
\* lambda x: 'q', and float(obj) for an int or a bool.
CallAdapter(adapter, value) ==
    CASE adapter = "identity" -> value
      [] adapter = "int" -> PyInt(IF value.val THEN 1 ELSE 0)
      [] adapter = "encode" -> PyBytes(value.val)
      [] adapter = "none" -> PyNone
      [] adapter = "_adapt_date" -> _adapt_date(value)
      [] adapter = "quote" -> PyStr(<<"q">>)
      [] adapter = "cast" ->
            PyFloat(IF value.type = "bool" THEN (IF value.val THEN 1 ELSE 0) ELSE value.val)

\* ----------------------------------------- extensions.register_adapter
register_adapter(registry, type_, function) ==
    [t \in DOMAIN registry \cup {type_} |-> IF t = type_ THEN function ELSE registry[t]]

\* del adapters[(type_, sqlite3.PrepareProtocol)]
unregister_adapter(registry, type_) == [t \in DOMAIN registry \ {type_} |-> registry[t]]

\* str(adapted) of an int or a float
str(value) ==
    IF value.type = "float" THEN Decimal(value.val) \o <<".", "0">>
    ELSE Decimal(value.val)

\* ------------------------------------------- extensions._adapt_from_python
\* The end of the function: what the adapter returned as the str that goes
\* into the payload, by its characters.
Literal(adapted) ==
    IF adapted.type \in {"bytes", "str"} THEN _escape_string(adapted)
    ELSE IF adapted.type = "NoneType" THEN <<"N", "U", "L", "L">>
    ELSE str(adapted)

\* the classes of the caller, as opposed to the types of the language
CallerClasses == {"object", "Adapting", "Conforming", "Both"}

\* hasattr(value, name) for the two methods of PEP 246
hasattr(value, name) ==
    value.type \in CallerClasses /\ \E i \in DOMAIN value.val : value.val[i] = name

\* value.__adapt__(sqlite3.PrepareProtocol), value.__conform__(...): the
\* caller's methods return a text that tells which one was called
CallMethod(value, name) ==
    IF name = "__adapt__" THEN PyStr(<<"A">>) ELSE PyStr(<<"C">>)

\* A variant that asks the value to conform before it asks it to adapt.
_adapt_from_python_conform_first(value) ==
    LET adapter_key == value.type
        adapter == IF adapter_key \in DOMAIN adapters THEN Some(adapters[adapter_key])
                   ELSE IF adapter_key \in DOMAIN _default_adapters
                   THEN Some(_default_adapters[adapter_key])
                   ELSE None
    IN  IF value.type = "str" THEN [exc |-> "none", adapted |-> Literal(value)]
        ELSE IF adapter # None
        THEN [exc |-> "none", adapted |-> Literal(CallAdapter(adapter[1], value))]
        ELSE IF hasattr(value, "__conform__")
        THEN [exc |-> "none", adapted |-> Literal(CallMethod(value, "__conform__"))]
        ELSE IF hasattr(value, "__adapt__")
        THEN [exc |-> "none", adapted |-> Literal(CallMethod(value, "__adapt__"))]
        ELSE [exc |-> "InterfaceError", adapted |-> <<>>]

_adapt_from_python(value) ==
    LET adapter_key == value.type
        adapter == IF adapter_key \in DOMAIN adapters THEN Some(adapters[adapter_key])
                   ELSE IF adapter_key \in DOMAIN _default_adapters
                   THEN Some(_default_adapters[adapter_key])
                   ELSE None
    IN  IF value.type = "str" THEN [exc |-> "none", adapted |-> Literal(value)]
        ELSE IF adapter # None
        THEN [exc |-> "none", adapted |-> Literal(CallAdapter(adapter[1], value))]
        ELSE IF hasattr(value, "__adapt__")
        THEN [exc |-> "none", adapted |-> Literal(CallMethod(value, "__adapt__"))]
        ELSE IF hasattr(value, "__conform__")
        THEN [exc |-> "none", adapted |-> Literal(CallMethod(value, "__conform__"))]
        ELSE [exc |-> "InterfaceError", adapted |-> <<>>]

\* ------------------------------------------ Cursor._resolve_named_params
\* The first name of named_params that the dict cannot resolve, 0 if none.
RECURSIVE FirstUnresolved(_, _, _)
FirstUnresolved(parameters, named_params, i) ==
    IF i > Len(named_params) THEN 0
    ELSE IF DictGetItem(parameters, named_params[i]).exc = "KeyError" THEN i
    ELSE FirstUnresolved(parameters, named_params, i + 1)

_resolve_named_params(operation, parameters, named_params) ==
    IF ~IsDict(parameters)
    THEN [exc |-> "ProgrammingError", resolved_params |-> <<>>]
    ELSE IF FirstUnresolved(parameters, named_params, 1) # 0
    THEN [exc |-> "ProgrammingError", resolved_params |-> <<>>]
    ELSE [exc |-> "none",
          resolved_params |->
              [param \in {named_params[i] : i \in 1..Len(named_params)} |->
                  DictGetItem(parameters, param).value]]

\* ------------------------------------- variants of _check_params_count
\* A variant that lets a sequence shorter than the markers through.
_check_params_count_short_sequence(operation, parameters) ==
    LET qmark_matches == _get_qmark_params(operation)
        named_matches == _get_named_params(operation)
        param_matches == Len(qmark_matches) + Len(named_matches)
    IN  IF param_matches > 0 /\ parameters.kind = "None" THEN "ProgrammingError"
        ELSE IF parameters.kind = "None" THEN "none"
        ELSE IF Len(qmark_matches) > 0 /\ Len(named_matches) > 0 THEN "ProgrammingError"
        ELSE IF IsDict(parameters)
        THEN IF Len(qmark_matches) > 0 THEN "ProgrammingError"
             ELSE IF FirstUnresolved(parameters, named_matches, 1) # 0
             THEN "ProgrammingError"
             ELSE "none"
        ELSE IF param_matches < Len(parameters.items) THEN "ProgrammingError"
        ELSE IF Len(named_matches) > 0 THEN "ProgrammingError"
        ELSE "none"

\* A variant that wants a dict to hold as many keys as the statement has
\* named markers.
_check_params_count_exact_keys(operation, parameters) ==
    LET qmark_matches == _get_qmark_params(operation)
        named_matches == _get_named_params(operation)
        param_matches == Len(qmark_matches) + Len(named_matches)
    IN  IF param_matches > 0 /\ parameters.kind = "None" THEN "ProgrammingError"
        ELSE IF parameters.kind = "None" THEN "none"
        ELSE IF Len(qmark_matches) > 0 /\ Len(named_matches) > 0 THEN "ProgrammingError"
        ELSE IF IsDict(parameters)
        THEN IF Len(qmark_matches) > 0 THEN "ProgrammingError"
             ELSE IF Cardinality(DOMAIN parameters.entries) # Len(named_matches)
             THEN "ProgrammingError"
             ELSE IF FirstUnresolved(parameters, named_matches, 1) # 0
             THEN "ProgrammingError"
             ELSE "none"
        ELSE IF param_matches # Len(parameters.items) THEN "ProgrammingError"
        ELSE IF Len(named_matches) > 0 THEN "ProgrammingError"
        ELSE "none"

\* A variant without the last test, the one that refuses a sequence for
\* named markers.
_check_params_count_named_sequence(operation, parameters) ==
    LET qmark_matches == _get_qmark_params(operation)
        named_matches == _get_named_params(operation)
        param_matches == Len(qmark_matches) + Len(named_matches)
    IN  IF param_matches > 0 /\ parameters.kind = "None" THEN "ProgrammingError"
        ELSE IF parameters.kind = "None" THEN "none"
        ELSE IF Len(qmark_matches) > 0 /\ Len(named_matches) > 0 THEN "ProgrammingError"
        ELSE IF IsDict(parameters)
        THEN IF Len(qmark_matches) > 0 THEN "ProgrammingError"
             ELSE IF FirstUnresolved(parameters, named_matches, 1) # 0
             THEN "ProgrammingError"
             ELSE "none"
        ELSE IF param_matches # Len(parameters.items) THEN "ProgrammingError"
        ELSE "none"

\* -------------------------------------------- Cursor._check_params_count
\* The exception it raises, "none" when it returns.
_check_params_count(operation, parameters) ==
    LET qmark_matches == _get_qmark_params(operation)
        named_matches == _get_named_params(operation)
        param_matches == Len(qmark_matches) + Len(named_matches)
    IN  IF param_matches > 0 /\ parameters.kind = "None" THEN "ProgrammingError"
        ELSE IF parameters.kind = "None" THEN "none"
        ELSE IF Len(qmark_matches) > 0 /\ Len(named_matches) > 0 THEN "ProgrammingError"
        ELSE IF IsDict(parameters)
        THEN IF Len(qmark_matches) > 0 THEN "ProgrammingError"
             ELSE IF FirstUnresolved(parameters, named_matches, 1) # 0
             THEN "ProgrammingError"
             ELSE "none"
        ELSE IF param_matches # Len(parameters.items) THEN "ProgrammingError"
        ELSE IF Len(named_matches) > 0 THEN "ProgrammingError"
        ELSE "none"

\* -------------------------------------- Cursor._get_operation_with_params
\* The first value of a sequence that has no adapter, 0 if none.
RECURSIVE FirstUnadaptable(_, _)
FirstUnadaptable(values, i) ==
    IF i > Len(values) THEN 0
    ELSE IF _adapt_from_python(values[i]).exc # "none" THEN i
    ELSE FirstUnadaptable(values, i + 1)

\* The payload entry [operation, adapted parameters], or the exception.
_get_operation_with_params(operation, parameters) ==
    LET checked == _check_params_count(operation, parameters)
        NoPayload == [operation |-> operation, style |-> "none",
                      positional |-> <<>>, named |-> <<>>]
    IN  IF checked # "none" THEN [exc |-> checked, op_payload |-> NoPayload]
        ELSE IF parameters.kind = "None" THEN [exc |-> "none", op_payload |-> NoPayload]
        ELSE IF IsDict(parameters)
        THEN LET r == _resolve_named_params(operation, parameters,
                                            _get_named_params(operation))
             IN  IF r.exc # "none" THEN [exc |-> r.exc, op_payload |-> NoPayload]
                 ELSE IF \E k \in DOMAIN r.resolved_params :
                            _adapt_from_python(r.resolved_params[k]).exc # "none"
                 THEN [exc |-> "InterfaceError", op_payload |-> NoPayload]
                 ELSE [exc |-> "none",
                       op_payload |->
                           [operation |-> operation, style |-> "named",
                            positional |-> <<>>,
                            named |-> [k \in DOMAIN r.resolved_params |->
                                _adapt_from_python(r.resolved_params[k]).adapted]]]
        ELSE IF FirstUnadaptable(parameters.items, 1) # 0
        THEN [exc |-> "InterfaceError", op_payload |-> NoPayload]
        ELSE [exc |-> "none",
              op_payload |->
                  [operation |-> operation, style |-> "qmark",
                   positional |-> [i \in 1..Len(parameters.items) |->
                       _adapt_from_python(parameters.items[i]).adapted],
                   named |-> <<>>]]

\* ---------------------------------------------- Cursor._get_sql_command
\* sql_str.split(None, 1)[0].upper(): the first whitespace-delimited token,
\* uppercased.  A statement with no token raises IndexError (absent here).
RECURSIVE SkipSpace(_, _)
SkipSpace(s, i) == IF i <= Len(s) /\ IsSpace(s[i]) THEN SkipSpace(s, i + 1) ELSE i

RECURSIVE TokenEnd(_, _)
TokenEnd(s, i) == IF i < Len(s) /\ ~IsSpace(s[i + 1]) THEN TokenEnd(s, i + 1) ELSE i

_get_sql_command(sql_str) ==
    LET b == SkipSpace(sql_str, 1) IN
    IF b > Len(sql_str) THEN None
    ELSE Some([i \in 1..(TokenEnd(sql_str, b) - b + 1) |-> upper(sql_str[b + i - 1])])

\* A variant of Row.__init__'s loop with d[k] = v in place of setdefault.
RECURSIVE RowDictLoop_overwrite(_, _, _)
RowDictLoop_overwrite(items, i, d) ==
    IF i > Len(items) THEN d
    ELSE RowDictLoop_overwrite(items, i + 1,
            [k \in DOMAIN d \cup {items[i][1]} |->
                IF k = items[i][1] THEN items[i][2] ELSE d[k]])

\* --------------------------------------------------------------- row.Row
\* Row.__init__: d.setdefault(k, v) over the pairs, in order
RECURSIVE RowDictLoop(_, _, _)
RowDictLoop(items, i, d) ==
    IF i > Len(items) THEN d
    ELSE IF items[i][1] \in DOMAIN d THEN RowDictLoop(items, i + 1, d)
    ELSE RowDictLoop(items, i + 1, d @@ (items[i][1] :> items[i][2]))

\* Row(items): the tuple of the values (__new__), _items and _dict (__init__)
Row(items) ==
    [tuple |-> [i \in 1..Len(items) |-> items[i][2]],
     items |-> items,
     dict |-> RowDictLoop(items, 1, <<>>)]

\* A subscript: a column name (str) or a position (int; Python counts from 0
\* and a negative position counts from the end).
NameKey(name) == [is_int |-> FALSE, name |-> name, index |-> 0]
IntKey(index) == [is_int |-> TRUE, name |-> "", index |-> index]

\* tuple.__getitem__(self, k) for an int k
TupleGetItem(t, k) ==
    IF 0 <= k /\ k < Len(t) THEN [exc |-> "none", value |-> Some(t[k + 1])]
    ELSE IF k < 0 /\ -k <= Len(t) THEN [exc |-> "none", value |-> Some(t[Len(t) + k + 1])]
    ELSE [exc |-> "IndexError", value |-> None]

\* Row.__getitem__
RowGetItem(self, k) ==
    IF ~k.is_int /\ k.name \in DOMAIN self.dict
    THEN [exc |-> "none", value |-> Some(self.dict[k.name])]
    ELSE IF k.is_int THEN TupleGetItem(self.tuple, k.index)
    ELSE [exc |-> "KeyError", value |-> None]

\* Row.keys, Row.values, Row.items, Row.__len__
RowKeys(self) == [i \in 1..Len(self.items) |-> self.items[i][1]]
RowValues(self) == [i \in 1..Len(self.items) |-> self.items[i][2]]
RowItems(self) == self.items
RowLen(self) == Len(self.tuple)

\* ------------------------------------------------- the response envelope
\* One entry of "results"; each key of the JSON object is an optional, and
\* "error" says whether the entry has an "error" key.
ResultItem(error, rows_affected, last_insert_id, columns, types, values) ==
    [error |-> error, rows_affected |-> rows_affected,
     last_insert_id |-> last_insert_id,
     columns |-> columns, types |-> types, values |-> values]

ErrorItem == ResultItem(TRUE, None, None, None, None, None)
ExecuteItem(rows_affected, last_insert_id) ==
    ResultItem(FALSE, rows_affected, last_insert_id, None, None, None)
QueryItem(columns, types, values) ==
    ResultItem(FALSE, None, None, Some(columns), types, values)

\* The JSON body: {"results": [...]} or, with has_results false, an object
\* without that key (rqlite's {"error": "..."}).
Envelope(has_results, results) == [has_results |-> has_results, results |-> results]

\* --------------------------------------------- extensions (converters)
\* str.upper()
LowerCase == <<"a", "b", "c", "d", "e", "f", "g", "h", "i", "j", "k", "l", "m",
               "n", "o", "p", "q", "r", "s", "t", "u", "v", "w", "x", "y", "z">>
UpperCase == <<"A", "B", "C", "D", "E", "F", "G", "H", "I", "J", "K", "L", "M",
               "N", "O", "P", "Q", "R", "S", "T", "U", "V", "W", "X", "Y", "Z">>
UpperChar(c) ==
    IF \E i \in 1..26 : LowerCase[i] = c
    THEN UpperCase[CHOOSE i \in 1..26 : LowerCase[i] = c]
    ELSE c
str_upper(chars) == [i \in 1..Len(chars) |-> UpperChar(chars[i])]

\* str.find(sep) from position i, counted from 1; 0 where sep is absent
RECURSIVE Find(_, _, _)
Find(chars, sep, i) ==
    IF i > Len(chars) THEN 0
    ELSE IF chars[i] = sep THEN i
    ELSE Find(chars, sep, i + 1)

\* sep in chars
Contains(chars, sep) == Find(chars, sep, 1) # 0

\* str.partition(sep): head, separator, tail
partition(chars, sep) ==
    LET i == Find(chars, sep, 1) IN
    IF i = 0 THEN <<chars, <<>>, <<>>>>
    ELSE <<SubSeq(chars, 1, i - 1), <<sep>>, SubSeq(chars, i + 1, Len(chars))>>

\* str.split(sep)
RECURSIVE split(_, _)
split(chars, sep) ==
    LET i == Find(chars, sep, 1) IN
    IF i = 0 THEN <<chars>>
    ELSE <<SubSeq(chars, 1, i - 1)>> \o split(SubSeq(chars, i + 1, Len(chars)), sep)

\* str.replace(old, new) of one character by another
replace(chars, old, new) == [i \in 1..Len(chars) |-> IF chars[i] = old THEN new ELSE chars[i]]

\* str.rstrip(c)
RECURSIVE rstrip(_, _)
rstrip(chars, c) ==
    IF chars # <<>> /\ chars[Len(chars)] = c
    THEN rstrip(SubSeq(chars, 1, Len(chars) - 1), c)
    ELSE chars

\* str.isdigit()
isdigit(chars) == chars # <<>> /\ \A i \in 1..Len(chars) : IsDigit(chars[i])

\* re.search of a literal pattern
Search(pattern, chars) ==
    \E i \in 1..(Len(chars) - Len(pattern) + 1) :
        SubSeq(chars, i, i + Len(pattern) - 1) = pattern

\* _text_affinity_re.search(type_upper): CHAR|CLOB|TEXT
_text_affinity_re(type_upper) ==
    \/ Search(<<"C", "H", "A", "R">>, type_upper)
    \/ Search(<<"C", "L", "O", "B">>, type_upper)
    \/ Search(<<"T", "E", "X", "T">>, type_upper)

\* codecs.decode(value, 'base64') of the texts the node answers with here:
\* characters outside the alphabet are dropped, so the dashes of a date go
\* and its eight digits decode to six bytes, two of them no ASCII.
codecs_decode_base64(chars) ==
    CASE chars = <<"e", "H", "h", "4">> ->
            [exc |-> "none", value |-> PyBytes(<<"x", "x", "x">>)]
      [] chars = <<"2", "0", "0", "4", "-", "0", "2", "-", "1", "4">> ->
            [exc |-> "none", value |-> PyBytes(<<"\\xdb", "M", "8", "\\xd3", "m", "x">>)]
      [] chars = <<"5">> ->
            [exc |-> "binascii.Error", value |-> PyNone]

\* a byte that bytes.decode("ascii") refuses
NonAscii(c) == c \in {"\\xdb", "\\xd3"}

\* datetime.date(year, month, day): ValueError outside the calendar
DaysIn(year, month) ==
    IF month \in {4, 6, 9, 11} THEN 30
    ELSE IF month # 2 THEN 31
    ELSE IF year % 4 = 0 /\ (year % 100 # 0 \/ year % 400 = 0) THEN 29
    ELSE 28

datetime_date(year, month, day) ==
    IF /\ year \in 1..9999
       /\ month \in 1..12
       /\ day \in 1..DaysIn(year, month)
    THEN [exc |-> "none", value |-> PyDate(year, month, day)]
    ELSE [exc |-> "ValueError", value |-> PyNone]

\* ------------------------------------------------ extensions._convert_date
\* datetime.date(*map(int, val.split('T')[0].split("-"))): an int has no
\* split, a piece that is no number is a ValueError of int, and any count of
\* pieces other than three is a TypeError of date.
_convert_date(val) ==
    IF val.type # "str" THEN [exc |-> "AttributeError", value |-> PyNone]
    ELSE LET pieces == split(split(val.val, "T")[1], "-") IN
         IF \E i \in 1..Len(pieces) : int(pieces[i]).exc # "none"
         THEN [exc |-> "ValueError", value |-> PyNone]
         ELSE IF Len(pieces) # 3 THEN [exc |-> "TypeError", value |-> PyNone]
         ELSE datetime_date(int(pieces[1]).value, int(pieces[2]).value,
                            int(pieces[3]).value)

\* ---------------------------------------------- extensions._null_wrapper
\* The functions of the registry, each by a name: "decode" is
\* lambda x: x.decode('utf-8'), "null" is lambda x: None, "identity" is
\* lambda x: x; int, bool and float are the built-in types;  "bracket" is a
\* converter of the caller, lambda x: "[%s]" % x.decode("ascii").
Call(function, value) ==
    CASE function = "decode" ->
            IF value.type = "bytes" THEN [exc |-> "none", value |-> PyStr(value.val)]
            ELSE [exc |-> "AttributeError", value |-> PyNone]
      [] function = "int" ->
            IF value.type \in {"int", "float"}
            THEN [exc |-> "none", value |-> PyInt(value.val)]
            ELSE IF value.type = "bool"
            THEN [exc |-> "none", value |-> PyInt(IF value.val THEN 1 ELSE 0)]
            ELSE IF value.type \in {"str", "bytes"}
            THEN [exc |-> int(value.val).exc,
                  value |-> IF int(value.val).exc = "none"
                            THEN PyInt(int(value.val).value) ELSE PyNone]
            ELSE [exc |-> "TypeError", value |-> PyNone]
      [] function = "bool" ->
            [exc |-> "none",
             value |-> PyBool(CASE value.type \in {"int", "float"} -> value.val # 0
                                [] value.type = "bool" -> value.val
                                [] value.type \in {"str", "bytes"} -> value.val # <<>>
                                [] OTHER -> FALSE)]
      [] function = "float" ->
            IF value.type \in {"int", "float"}
            THEN [exc |-> "none", value |-> PyFloat(value.val)]
            ELSE IF value.type = "bool"
            THEN [exc |-> "none", value |-> PyFloat(IF value.val THEN 1 ELSE 0)]
            ELSE IF value.type \in {"str", "bytes"}
            THEN [exc |-> int(value.val).exc,
                  value |-> IF int(value.val).exc = "none"
                            THEN PyFloat(int(value.val).value) ELSE PyNone]
            ELSE [exc |-> "TypeError", value |-> PyNone]
      [] function = "null" -> [exc |-> "none", value |-> PyNone]
      [] function = "identity" -> [exc |-> "none", value |-> value]
      [] function = "_convert_date" -> _convert_date(value)
      [] function = "datetime" ->
            IF value.type # "str" THEN [exc |-> "AttributeError", value |-> PyNone]
            ELSE [exc |-> "none", value |-> PyStr(rstrip(replace(value.val, "T", " "), "Z"))]
      [] function = "bracket" ->
            IF value.type # "bytes" THEN [exc |-> "AttributeError", value |-> PyNone]
            ELSE IF \E i \in 1..Len(value.val) : NonAscii(value.val[i])
            THEN [exc |-> "UnicodeDecodeError", value |-> PyNone]
            ELSE [exc |-> "none", value |-> PyStr(<<"[">> \o value.val \o <<"]">>)]

_null_wrapper(converter, value) ==
    IF value # PyNone THEN Call(converter, value)
    ELSE [exc |-> "none", value |-> value]

\* ------------------------------------------------- extensions.converters
\* The registry as the module builds it: each key with the function it
\* holds, and whether functools.partial(_null_wrapper, ...) wraps it.
Converter(function, null_wrapped) == [function |-> function, null_wrapped |-> null_wrapped]

DefaultConverters ==
    (<<"U", "N", "I", "C", "O", "D", "E">> :> Converter("decode", TRUE))
    @@ (<<"I", "N", "T", "E", "G", "E", "R">> :> Converter("int", TRUE))
    @@ (<<"B", "O", "O", "L">> :> Converter("bool", TRUE))
    @@ (<<"F", "L", "O", "A", "T">> :> Converter("float", TRUE))
    @@ (<<"R", "E", "A", "L">> :> Converter("float", TRUE))
    @@ (<<"N", "U", "L", "L">> :> Converter("null", FALSE))
    @@ (<<"B", "L", "O", "B">> :> Converter("identity", FALSE))
    @@ (<<"D", "A", "T", "E">> :> Converter("_convert_date", TRUE))
    @@ (<<"D", "A", "T", "E", "T", "I", "M", "E">> :> Converter("datetime", FALSE))
    @@ (<<"T", "I", "M", "E", "S", "T", "A", "M", "P">>
            :> Converter("_convert_timestamp", TRUE))

_native_converters ==
    {<<"B", "O", "O", "L">>, <<"F", "L", "O", "A", "T">>,
     <<"I", "N", "T", "E", "G", "E", "R">>, <<"R", "E", "A", "L">>,
     <<"N", "U", "M", "B", "E", "R">>, <<"N", "U", "L", "L">>,
     <<"D", "A", "T", "E">>, <<"D", "A", "T", "E", "T", "I", "M", "E">>,
     <<"T", "I", "M", "E", "S", "T", "A", "M", "P">>}

\* converter(value) for an entry of the registry
CallConverter(converter, value) ==
    IF converter.null_wrapped THEN _null_wrapper(converter.function, value)
    ELSE Call(converter.function, value)

\* ------------------------------------ extensions.register_converter
register_converter(registry, type_string, function) ==
    [k \in DOMAIN registry \cup {str_upper(type_string)} |->
        IF k = str_upper(type_string) THEN Converter(function, FALSE) ELSE registry[k]]

\* del converters[NAME]: the key is removed, whatever function it held
unregister_converter(registry, type_string) ==
    [k \in DOMAIN registry \ {type_string} |-> registry[k]]

\* --------------------------------- extensions._decode_base64_converter
_decode_base64_converter(converter, value) ==
    IF value = PyNone THEN [exc |-> "none", value |-> value]
    ELSE IF value.type \notin {"bytes", "str"}
    THEN [exc |-> "AttributeError", value |-> PyNone]
    ELSE LET decoded == codecs_decode_base64(value.val) IN
         IF decoded.exc # "none" THEN decoded
         ELSE CallConverter(converter, decoded.value)

\* ------------------------ extensions._conditional_string_decode_base64
_conditional_string_decode_base64(value) ==
    IF value.type = "str" THEN codecs_decode_base64(value.val)
    ELSE [exc |-> "none", value |-> value]

\* ------------------------------------------ extensions._convert_to_python
\* What the function returns, absent for None: the registry's entry and
\* whether it is wrapped in _decode_base64_converter, or
\* _conditional_string_decode_base64 (conditional).
Chosen(converter, base64) ==
    [converter |-> converter, base64 |-> base64, conditional |-> FALSE]
Conditional == [converter |-> Converter("identity", FALSE), base64 |-> FALSE,
                conditional |-> TRUE]

\* the type a column without a declared type gets from its name
Inferred(column_name, type_) ==
    IF type_ # <<>> THEN type_
    ELSE IF isdigit(column_name) THEN <<"i", "n", "t">>
    ELSE IF isdigit(partition(column_name, ".")[1])
            /\ isdigit(partition(column_name, ".")[3])
    THEN <<"r", "e", "a", "l">>
    ELSE type_

\* column_name.upper().partition('[')[-1].partition(']')[0]
Hint(column_name) ==
    partition(partition(str_upper(column_name), "[")[3], "]")[1]

\* type_upper.partition('(')[0].partition(' ')[0]
Cut(type_upper) == partition(partition(type_upper, "(")[1], " ")[1]

\* A variant that looks the declared type up before the column name's hint.
_convert_to_python_decltype_first(column_name, type_, parse_decltypes, parse_colnames) ==
    LET hinted == Contains(column_name, "[") /\ Contains(column_name, "]")
                  /\ parse_colnames
        declared == IF parse_decltypes THEN Cut(str_upper(Inferred(column_name, type_)))
                    ELSE str_upper(Inferred(column_name, type_))
        by_declared == declared \in DOMAIN converters
                       /\ (declared \in _native_converters \/ parse_decltypes)
        by_hint == ~by_declared /\ hinted /\ Hint(column_name) \in DOMAIN converters
        type_upper == IF by_hint THEN Hint(column_name) ELSE declared
    IN  IF by_hint \/ by_declared
        THEN Some(Chosen(converters[type_upper], type_upper \notin _native_converters))
        ELSE IF type_upper = <<>> \/ _text_affinity_re(type_upper) THEN None
        ELSE Some(Conditional)

\* A variant that looks the declared type up whole, without the cut.
_convert_to_python_no_cut(column_name, type_, parse_decltypes, parse_colnames) ==
    LET hinted == Contains(column_name, "[") /\ Contains(column_name, "]")
                  /\ parse_colnames
        by_hint == hinted /\ Hint(column_name) \in DOMAIN converters
        declared == str_upper(Inferred(column_name, type_))
        type_upper == IF by_hint THEN Hint(column_name) ELSE declared
        by_declared == ~by_hint /\ declared \in DOMAIN converters
                       /\ (declared \in _native_converters \/ parse_decltypes)
    IN  IF by_hint \/ by_declared
        THEN Some(Chosen(converters[type_upper], type_upper \notin _native_converters))
        ELSE IF type_upper = <<>> \/ _text_affinity_re(type_upper) THEN None
        ELSE Some(Conditional)

\* The function's body, reading the converters of the registry it is given.
ConverterFor(registry, column_name, type_, parse_decltypes, parse_colnames) ==
    LET hinted == Contains(column_name, "[") /\ Contains(column_name, "]")
                  /\ parse_colnames
        by_hint == hinted /\ Hint(column_name) \in DOMAIN registry
        declared == IF parse_decltypes THEN Cut(str_upper(Inferred(column_name, type_)))
                    ELSE str_upper(Inferred(column_name, type_))
        type_upper == IF by_hint THEN Hint(column_name) ELSE declared
        by_declared == ~by_hint /\ declared \in DOMAIN registry
                       /\ (declared \in _native_converters \/ parse_decltypes)
    IN  IF by_hint \/ by_declared
        THEN Some(Chosen(registry[type_upper], type_upper \notin _native_converters))
        ELSE IF type_upper = <<>> \/ _text_affinity_re(type_upper) THEN None
        ELSE Some(Conditional)

\* the module's converters are the registry it reads
_convert_to_python(column_name, type_, parse_decltypes, parse_colnames) ==
    ConverterFor(converters, column_name, type_, parse_decltypes, parse_colnames)

\* value if converter is None else converter(value)         (cursors.py: execute)
ApplyConverter(converter, value) ==
    IF converter = None THEN [exc |-> "none", value |-> value]
    ELSE IF converter[1].conditional THEN _conditional_string_decode_base64(value)
    ELSE IF converter[1].base64
    THEN _decode_base64_converter(converter[1].converter, value)
    ELSE CallConverter(converter[1].converter, value)

\* ------------------------------------------- extensions._column_stripper
_column_stripper(column_name, parse_colnames) ==
    IF parse_colnames THEN partition(column_name, " ")[1] ELSE column_name

\* json.dumps(item): the JSON text of an entry, here the entry marked as text
json_dumps(item) == [json |-> item]

\* A variant of the loop over the results with rows_affected = in place
\* of rows_affected +=.
RECURSIVE ScanResults_last(_, _, _)
ScanResults_last(results, i, acc) ==
    IF i > Len(results) THEN acc
    ELSE LET item == results[i] IN
         IF item.error
         THEN [acc EXCEPT !.exc = "ProgrammingError", !.args = <<json_dumps(item)>>]
         ELSE ScanResults_last(results, i + 1,
                [acc EXCEPT
                   !.rows_affected =
                       IF item.rows_affected # None THEN item.rows_affected[1] ELSE @,
                   !.last_insert_id =
                       IF item.last_insert_id # None THEN item.last_insert_id ELSE @,
                   !.payload_rows =
                       IF item.columns # None THEN Some(item) ELSE @])

\* A variant of the loop over the results that passes over an entry with
\* an error.
RECURSIVE ScanResults_skip_errors(_, _, _)
ScanResults_skip_errors(results, i, acc) ==
    IF i > Len(results) THEN acc
    ELSE LET item == results[i] IN
         IF item.error
         THEN ScanResults_skip_errors(results, i + 1, acc)
         ELSE ScanResults_skip_errors(results, i + 1,
                [acc EXCEPT
                   !.rows_affected =
                       IF item.rows_affected # None THEN @ + item.rows_affected[1] ELSE @,
                   !.last_insert_id =
                       IF item.last_insert_id # None THEN item.last_insert_id ELSE @,
                   !.payload_rows =
                       IF item.columns # None THEN Some(item) ELSE @])

\* ----------------------------------- Cursor.execute: reading the payload
\* The loop over payload["results"]; acc holds the locals rows_affected,
\* last_insert_id and payload_rows, and exc the exception raised.
RECURSIVE ScanResults(_, _, _)
ScanResults(results, i, acc) ==
    IF i > Len(results) THEN acc
    ELSE LET item == results[i] IN
         IF item.error
         THEN [acc EXCEPT !.exc = "ProgrammingError", !.args = <<json_dumps(item)>>]
         ELSE ScanResults(results, i + 1,
                [acc EXCEPT
                   !.rows_affected =
                       IF item.rows_affected # None THEN @ + item.rows_affected[1] ELSE @,
                   !.last_insert_id =
                       IF item.last_insert_id # None THEN item.last_insert_id ELSE @,
                   !.payload_rows =
                       IF item.columns # None THEN Some(item) ELSE @])

ReadPayload(payload) ==
    IF ~payload.has_results
    THEN [exc |-> "none", args |-> <<>>, rows_affected |-> -1,
          last_insert_id |-> None, payload_rows |-> None]
    ELSE ScanResults(payload.results, 1,
            [exc |-> "none", args |-> <<>>, rows_affected |-> 0,
             last_insert_id |-> None, payload_rows |-> None])

Min(a, b) == IF a < b THEN a ELSE b

\* converter(value) of every cell, by row and column: zip(fields, converters,
\* payload_row) stops at the shortest of the three.
Cells(fields, types, values, parse_decltypes, parse_colnames) ==
    [r \in 1..Len(values) |->
        [j \in 1..Min(Min(Len(fields), Len(types)), Len(values[r])) |->
            ApplyConverter(_convert_to_python(fields[j], types[j],
                                              parse_decltypes, parse_colnames),
                           values[r][j])]]

\* the cells whose converter raises, and the one the loops reach first
Raising(cells) ==
    {p \in UNION {{<<r, j>> : j \in 1..Len(cells[r])} : r \in 1..Len(cells)} :
        cells[p[1]][p[2]].exc # "none"}
FirstRaising(cells) ==
    CHOOSE p \in Raising(cells) :
        \A q \in Raising(cells) : p[1] < q[1] \/ (p[1] = q[1] /\ p[2] <= q[2])

\* rows of the branch "columns" in payload_rows, or the exception of a converter
DecodeRows(payload_rows, parse_decltypes, parse_colnames) ==
    IF payload_rows.values = None \/ payload_rows.types = None
    THEN [exc |-> "none", rows |-> <<>>]
    ELSE Strict(Cells(payload_rows.columns[1], payload_rows.types[1],
                      payload_rows.values[1], parse_decltypes, parse_colnames),
                LAMBDA cells :
             IF Raising(cells) # {}
             THEN [exc |-> cells[FirstRaising(cells)[1]][FirstRaising(cells)[2]].exc,
                   rows |-> <<>>]
             ELSE [exc |-> "none",
                   rows |-> [r \in 1..Len(cells) |->
                               Row([j \in 1..Len(cells[r]) |->
                                       <<payload_rows.columns[1][j],
                                         cells[r][j].value>>])]])

\* description of that branch: one 7-tuple per field
Describe(fields, parse_colnames) ==
    [j \in 1..Len(fields) |->
        <<_column_stripper(fields[j], parse_colnames), None, None, None, None, None, None>>]

\* ================================================================ state
VARIABLES
    entry,              \* the call the caller's program makes: "execute",
                        \* "executemany", "session" (both, on one cursor),
                        \* or "row" (subscripting a Row)
    operation,          \* its statement
    parameters,         \* execute's parameters
    seq_of_parameters,  \* executemany's batch
    server,             \* what the rqlite node answers
    cursor,             \* the Cursor's attributes
    ret,                \* the last call: method, exception raised, value returned
    wire,               \* the HTTP requests the last execute/executemany sent
    handed,             \* the rows handed out since the last result was stored
    hung,               \* a call is in a loop that never ends
    row,                \* a Row the caller holds
    network,            \* how the cluster treats the attempts of one request
    connection,         \* the Connection's attributes
    log,                \* what the transport did during the last call, in order
    closed              \* Connection.close() has been called

vars == <<entry, operation, parameters, seq_of_parameters, server, cursor, ret,
          wire, handed, hung, row, network, connection, log, closed, adapters,
          converters>>

\* response.code of a successful request            (cursors.py: _request)
HTTP_OK == 200

\* ---------------------------------------------------- Cursor.__init__
NewCursor ==
    [lastrowid |-> None, description |-> None, rownumber |-> 0, rowcount |-> -1,
     arraysize |-> 1, _rows |-> None]

\* ret: value is the list of the objects returned (one object for a call
\* that returns one) or the arguments of the exception raised, size the size given to fetchmany, key the subscript
\* given to a Row, before the cursor's rownumber when the call began.
Returned(method, exc, value, size, key, before) ==
    [method |-> method, exc |-> exc, value |-> value, size |-> size, key |-> key,
     before |-> before]

\* ------------------------------------------------------ the rqlite node
\* The node answers a request with at most one result per statement sent,
\* from its answer for the endpoint the request names.
Prefix(s, n) == SubSeq(s, 1, Min(n, Len(s)))

\* A node that keeps what it is given unchanged (echo) answers a query with
\* one row, the parameters of the statement as the texts the payload holds,
\* under the columns and declared types of its table.
Stored(srv, request) ==
    Envelope(TRUE,
        <<QueryItem(srv.echo[1].columns, Some(srv.echo[1].types),
                    Some(<<[i \in 1..Len(request.statements[1].positional) |->
                              PyStr(request.statements[1].positional[i])]>>))>>)

Respond(srv, request) ==
    LET answer == IF request.path # "/db/query?" THEN srv.execute
                  ELSE IF srv.echo # None THEN Stored(srv, request)
                  ELSE srv.query
    IN  [code |-> srv.status,
         json |-> Envelope(answer.has_results,
                           Prefix(answer.results, Len(request.statements)))]

\* ------------------------------------------------------- the transport
\* tries = 10                                  (connections.py: _retry_request)
TRIES == 10
\* response.status of a redirect              (connections.py: _fetch_response)
MOVED_PERMANENTLY == 301
\* max_redirects of a connection that follows every redirect (pyrqlite.constants)
UNLIMITED_REDIRECTS == -1

\* http.client.HTTPConnection(host, port): no socket until a request is made
HTTPConnection(host, port) == [host |-> host, port |-> port, sock |-> FALSE]

\* the bits of detect_types                                  (extensions.py)
PARSE_DECLTYPES == 1
PARSE_COLNAMES == 2

\* Connection.__init__ and _init_connection, called without user, password
\* and timeout (no Authorization header, no timeout); parse_decltypes and
\* parse_colnames are detect_types & PARSE_DECLTYPES and
\* detect_types & PARSE_COLNAMES as the conditions that test them see them.
NewConnection(host, port, max_redirects, detect_types) ==
    [scheme |-> "http", host |-> host, port |-> port, _headers |-> <<>>,
     timeout |-> None, max_redirects |-> max_redirects,
     detect_types |-> detect_types,
     parse_decltypes |-> (detect_types \div PARSE_DECLTYPES) % 2 = 1,
     parse_colnames |-> (detect_types \div PARSE_COLNAMES) % 2 = 1,
     _connection |-> HTTPConnection(host, port)]

\* A uri: the path of a request, or the absolute URL of a Location header;
\* urlparse gives its hostname and port, None for a path alone.
Uri(hostname, port, path) == [hostname |-> hostname, port |-> port, path |-> path]

\* What the transport does, as the log keeps it, each with the host and
\* port of the HTTPConnection it is done on: "send", a request handed to it;
\* "except", an exception of request() or getresponse() that is caught;
\* "raise", one that is raised again; "response", a response received, with
\* its status and its Location; "close"; "open", an _init_connection().
Event(kind, conn, method, uri, body, status) ==
    [kind |-> kind, host |-> conn._connection.host, port |-> conn._connection.port,
     method |-> method, uri |-> uri, body |-> body, status |-> status]
Quiet(kind, conn) == Event(kind, conn, "", Uri(None, None, ""), <<>>, 0)
ResponseEvent(conn, answer) ==
    Event("response", conn, "",
          IF answer.location = None THEN Uri(None, None, "") ELSE answer.location[1],
          <<>>, answer.status)

\* The cluster, for one logical request: each redirect it answers with, the
\* attempts that fail before that answer arrives, and the attempts that fail
\* before the node holding the data answers.
RedirectHop(fails, location) == [fails |-> fails, location |-> location]
Network(hops, fails) == [hops |-> hops, fails |-> fails]
NoFaults == Network(<<>>, 0)

FailsOf(net, k) == IF k <= Len(net.hops) THEN net.hops[k].fails ELSE net.fails

\* the response to the k-th request of the call that is answered
AnswerOf(net, srv, k, request) ==
    IF k <= Len(net.hops)
    THEN [status |-> MOVED_PERMANENTLY,
          location |-> IF net.hops[k].location = None THEN None
                       ELSE Some(Uri(Some(net.hops[k].location[1].host),
                                     Some(net.hops[k].location[1].port),
                                     request.path)),
          json |-> Envelope(FALSE, <<>>)]
    ELSE [status |-> Respond(srv, request).code, location |-> None,
          json |-> Respond(srv, request).json]

\* ------------------------------------------- Connection._retry_request
\* while tries: the attempt, and after an exception close and
\* _init_connection unless no try is left.  request() opens the socket of an
\* HTTPConnection that has none.
RECURSIVE RetryLoop(_, _, _, _, _, _, _)
RetryLoop(self, tries, fails, method, uri, body, events) ==
    IF tries = 0
    THEN [connection |-> self, log |-> events, raised |-> FALSE, answered |-> FALSE]
    ELSE Strict([self EXCEPT !._connection.sock = TRUE], LAMBDA conn :
         Strict(Append(events, Event("send", conn, method, uri, body, 0)), LAMBDA sent :
             IF fails > 0
             THEN IF tries - 1 = 0
                  THEN [connection |-> conn, log |-> Append(sent, Quiet("raise", conn)),
                        raised |-> TRUE, answered |-> FALSE]
                  ELSE RetryLoop([conn EXCEPT !._connection =
                                                 HTTPConnection(conn.host, conn.port)],
                                 tries - 1, fails - 1, method, uri, body,
                                 sent \o <<Quiet("except", conn), Quiet("close", conn),
                                           Quiet("open", conn)>>)
             ELSE [connection |-> conn, log |-> sent, raised |-> FALSE,
                   answered |-> TRUE]))

\* A variant of _retry_request that starts with one try more.
_retry_request_one_more(self, fails, method, uri, body, events) ==
    RetryLoop(self, TRIES + 1, fails, method, uri, body, events)

_retry_request(self, fails, method, uri, body, events) ==
    RetryLoop(self, TRIES, fails, method, uri, body, events)

\* ------------------------------------------ Connection._fetch_response
\* if self.host != location.hostname or self.port != location.port: the
\* connection afterwards, and the events with the close and the open added
Moved(self, uri) == Some(self.host) # uri.hostname \/ Some(self.port) # uri.port

\* A variant of that block which leaves host and port as they are.
Retarget_keep(self, uri) ==
    IF Moved(self, uri)
    THEN [self EXCEPT !._connection = HTTPConnection(self.host, self.port)]
    ELSE self

\* A variant of that block which opens the transport to the Location and
\* leaves host and port as they are.
Retarget_transport_only(self, uri) ==
    IF Moved(self, uri)
    THEN [self EXCEPT !._connection = HTTPConnection(uri.hostname[1], uri.port[1])]
    ELSE self

Retarget(self, uri) ==
    IF Moved(self, uri)
    THEN [self EXCEPT !.host = uri.hostname[1], !.port = uri.port[1],
                      !._connection = HTTPConnection(uri.hostname[1], uri.port[1])]
    ELSE self

Reopened(self, uri, events) ==
    IF Moved(self, uri)
    THEN events \o <<Quiet("close", self), Quiet("open", Retarget(self, uri))>>
    ELSE events

\* A variant of the loop's bound that lets one more redirect through.
Within_inclusive(self, redirects) ==
    self.max_redirects = UNLIMITED_REDIRECTS \/ redirects <= self.max_redirects

\* self.max_redirects == UNLIMITED_REDIRECTS or redirects < self.max_redirects
Within(self, redirects) ==
    self.max_redirects = UNLIMITED_REDIRECTS \/ redirects < self.max_redirects

\* The while loop over the redirects; k counts the requests answered, and
\* Resent takes up the loop's body after its _retry_request.
RECURSIVE RedirectLoop(_, _, _, _, _, _, _, _)
RECURSIVE Resent(_, _, _, _, _, _, _)
RedirectLoop(self, net, srv, request, response, redirects, k, events) ==
    IF /\ response.status = MOVED_PERMANENTLY
       /\ response.location # None
       /\ Within(self, redirects)
    THEN Resent(_retry_request(Retarget(self, response.location[1]),
                               FailsOf(net, k + 1), request.method,
                               response.location[1], request.statements,
                               Reopened(self, response.location[1], events)),
                net, srv, request, response, redirects + 1, k + 1)
    ELSE [connection |-> self, log |-> events, raised |-> FALSE, response |-> response]

Resent(again, net, srv, request, response, redirects, k) ==
    Strict(again, LAMBDA sent :
        IF sent.raised
        THEN [connection |-> sent.connection, log |-> sent.log, raised |-> TRUE,
              response |-> response]
        ELSE RedirectLoop(sent.connection, net, srv, request,
                          AnswerOf(net, srv, k, request), redirects, k,
                          Append(sent.log,
                                 ResponseEvent(sent.connection,
                                               AnswerOf(net, srv, k, request)))))

_fetch_response(self, net, srv, request) ==
    Resent(_retry_request(self, FailsOf(net, 1), request.method,
                          Uri(None, None, request.path), request.statements, <<>>),
           net, srv, request, AnswerOf(net, srv, 1, request), 0, 1)

\* the requests among the events of a log, as they went out
IsSend(e) == e.kind = "send"
Sends(events) ==
    LET sends == SelectSeq(events, IsSend) IN
    [i \in 1..Len(sends) |->
        [method |-> sends[i].method, path |-> sends[i].uri.path,
         statements |-> sends[i].body]]

\* -------------------------------------------------------- Cursor._request
\* connection._fetch_response, then the status check: what the transport
\* did, the exception raised and the decoded body.  An exception of the
\* transport passes through as it is.
StatusCheck(fetched) ==
    IF fetched.raised
    THEN [connection |-> fetched.connection, log |-> fetched.log,
          exc |-> "TransportException", response_json |-> Envelope(FALSE, <<>>)]
    ELSE IF fetched.response.status # HTTP_OK
    THEN [connection |-> fetched.connection, log |-> fetched.log,
          exc |-> "Error", response_json |-> Envelope(FALSE, <<>>)]
    ELSE [connection |-> fetched.connection, log |-> fetched.log,
          exc |-> "none", response_json |-> fetched.response.json]

_request(conn, net, srv, request) == StatusCheck(_fetch_response(conn, net, srv, request))

Request(path, statements) == [method |-> "POST", path |-> path, statements |-> statements]

\* A variant of execute whose rowcount is len(self._rows) for every command.
execute_rows_only(self, conn, net, op, params, srv) ==
    LET bound == _get_operation_with_params(op, params)
        command == _get_sql_command(op)
        path == IF command \in {Some(<<"SELECT">>), Some(<<"PRAGMA">>)}
                THEN "/db/query?" ELSE "/db/execute?transaction"
    IN  IF bound.exc # "none" THEN [connection |-> conn, log |-> <<>>,
              exc |-> bound.exc, args |-> <<>>, cursor |-> self]
        ELSE IF command = None THEN [connection |-> conn, log |-> <<>>,
              exc |-> "IndexError", args |-> <<>>,
                                    cursor |-> self]
        ELSE Strict(_request(conn, net, srv, Request(path, <<bound.op_payload>>)),
                    LAMBDA answer :
        LET read == ReadPayload(answer.response_json)
            decoded == IF read.payload_rows = None THEN [exc |-> "none", rows |-> <<>>]
                       ELSE DecodeRows(read.payload_rows[1], conn.parse_decltypes,
                                       conn.parse_colnames)
            rows == decoded.rows
        IN
        IF answer.exc # "none"
        THEN [connection |-> answer.connection, log |-> answer.log,
              exc |-> answer.exc, args |-> <<>>, cursor |-> self]
        ELSE IF read.exc # "none"
        THEN [connection |-> answer.connection, log |-> answer.log,
              exc |-> read.exc, args |-> read.args, cursor |-> self]
        ELSE IF decoded.exc # "none"
        THEN [connection |-> answer.connection, log |-> answer.log,
              exc |-> decoded.exc, args |-> <<>>, cursor |-> self]
        ELSE [connection |-> answer.connection, log |-> answer.log,
              exc |-> "none", args |-> <<>>,
              cursor |->
                [self EXCEPT
                   !.description =
                       IF read.payload_rows = None THEN None
                       ELSE Some(Describe(read.payload_rows[1].columns[1],
                                     conn.parse_colnames)),
                   !._rows = Some(rows),
                   !.lastrowid =
                       IF read.payload_rows = None /\ command = Some(<<"INSERT">>)
                       THEN read.last_insert_id ELSE @,
                   !.rownumber = 0,
                   !.rowcount = Len(rows)]])

\* isinstance(operation, basestring): a statement argument that is no str
\* (an int, None, bytes) is the one text NotAString
NotAString == <<"<not a str>">>
IsString(op) == op # NotAString

\* -------------------------------------------------------- Cursor.execute
\* The whole call: what it sent, what it raised, and the cursor afterwards.
execute(self, conn, net, op, params, srv) ==
    LET bound == _get_operation_with_params(op, params)
        command == _get_sql_command(op)
        path == IF command \in {Some(<<"SELECT">>), Some(<<"PRAGMA">>)}
                THEN "/db/query?" ELSE "/db/execute?transaction"
    IN  IF ~IsString(op) THEN [connection |-> conn, log |-> <<>>,
              exc |-> "ValueError", args |-> <<>>, cursor |-> self]
        ELSE IF bound.exc # "none" THEN [connection |-> conn, log |-> <<>>,
              exc |-> bound.exc, args |-> <<>>, cursor |-> self]
        ELSE IF command = None THEN [connection |-> conn, log |-> <<>>,
              exc |-> "IndexError", args |-> <<>>,
                                    cursor |-> self]
        ELSE Strict(_request(conn, net, srv, Request(path, <<bound.op_payload>>)),
                    LAMBDA answer :
        LET read == ReadPayload(answer.response_json)
            decoded == IF read.payload_rows = None THEN [exc |-> "none", rows |-> <<>>]
                       ELSE DecodeRows(read.payload_rows[1], conn.parse_decltypes,
                                       conn.parse_colnames)
            rows == decoded.rows
        IN
        IF answer.exc # "none"
        THEN [connection |-> answer.connection, log |-> answer.log,
              exc |-> answer.exc, args |-> <<>>, cursor |-> self]
        ELSE IF read.exc # "none"
        THEN [connection |-> answer.connection, log |-> answer.log,
              exc |-> read.exc, args |-> read.args, cursor |-> self]
        ELSE IF decoded.exc # "none"
        THEN [connection |-> answer.connection, log |-> answer.log,
              exc |-> decoded.exc, args |-> <<>>, cursor |-> self]
        ELSE [connection |-> answer.connection, log |-> answer.log,
              exc |-> "none", args |-> <<>>,
              cursor |->
                [self EXCEPT
                   !.description =
                       IF read.payload_rows = None THEN None
                       ELSE Some(Describe(read.payload_rows[1].columns[1],
                                     conn.parse_colnames)),
                   !._rows = Some(rows),
                   !.lastrowid =
                       IF read.payload_rows = None /\ command = Some(<<"INSERT">>)
                       THEN read.last_insert_id ELSE @,
                   !.rownumber = 0,
                   !.rowcount =
                       IF command \in {Some(<<"UPDATE">>), Some(<<"DELETE">>)}
                       THEN read.rows_affected ELSE Len(rows)]])

\* ---------------------------------------------------- Cursor.executemany
\* The loop that builds statements: the first parameter set that fails, 0 if none.
RECURSIVE FirstUnbound(_, _, _)
FirstUnbound(op, batch, i) ==
    IF i > Len(batch) THEN 0
    ELSE IF _get_operation_with_params(op, batch[i]).exc # "none" THEN i
    ELSE FirstUnbound(op, batch, i + 1)

\* A variant of executemany that posts each statement as soon as it is
\* bound: the sets before the failing one are sent.
executemany_eager(self, conn, net, op, batch, srv) ==
    LET bad == FirstUnbound(op, batch, 1)
        statements == [i \in 1..Len(batch) |->
                          _get_operation_with_params(op, batch[i]).op_payload]
    IN  IF bad # 0
        THEN [connection |-> conn,
              log |-> [i \in 1..(bad - 1) |->
                         Event("send", conn, "POST",
                               Uri(None, None, "/db/execute?transaction"),
                               <<statements[i]>>, 0)],
              exc |-> _get_operation_with_params(op, batch[bad]).exc,
              args |-> <<>>, cursor |-> self]
        ELSE Strict(_request(conn, net, srv,
                             Request("/db/execute?transaction", statements)),
                    LAMBDA answer :
        LET read == ReadPayload(answer.response_json) IN
        IF answer.exc # "none"
        THEN [connection |-> answer.connection, log |-> answer.log,
              exc |-> answer.exc, args |-> <<>>, cursor |-> self]
        ELSE IF read.exc # "none"
        THEN [connection |-> answer.connection, log |-> answer.log,
              exc |-> read.exc, args |-> read.args, cursor |-> self]
        ELSE [connection |-> answer.connection, log |-> answer.log,
              exc |-> "none", args |-> <<>>,
              cursor |-> [self EXCEPT !._rows = Some(<<>>), !.rownumber = 0,
                                      !.rowcount = read.rows_affected]])

\* A variant of executemany that empties the cursor before it reads the
\* response: a call that raises over the response leaves the cursor reset.
executemany_reset_first(self, conn, net, op, batch, srv) ==
    LET bad == FirstUnbound(op, batch, 1)
        statements == [i \in 1..Len(batch) |->
                          _get_operation_with_params(op, batch[i]).op_payload]
        reset == [self EXCEPT !._rows = Some(<<>>), !.rownumber = 0, !.rowcount = -1]
    IN  IF ~IsString(op) THEN [connection |-> conn, log |-> <<>>,
              exc |-> "ValueError", args |-> <<>>, cursor |-> self]
        ELSE IF bad # 0
        THEN [connection |-> conn, log |-> <<>>,
              exc |-> _get_operation_with_params(op, batch[bad]).exc,
              args |-> <<>>, cursor |-> self]
        ELSE Strict(_request(conn, net, srv,
                             Request("/db/execute?transaction", statements)),
                    LAMBDA answer :
        LET read == ReadPayload(answer.response_json) IN
        IF answer.exc # "none"
        THEN [connection |-> answer.connection, log |-> answer.log,
              exc |-> answer.exc, args |-> <<>>, cursor |-> self]
        ELSE IF read.exc # "none"
        THEN [connection |-> answer.connection, log |-> answer.log,
              exc |-> read.exc, args |-> read.args, cursor |-> reset]
        ELSE [connection |-> answer.connection, log |-> answer.log,
              exc |-> "none", args |-> <<>>,
              cursor |-> [self EXCEPT !._rows = Some(<<>>), !.rownumber = 0,
                                      !.rowcount = read.rows_affected]])

executemany(self, conn, net, op, batch, srv) ==
    LET bad == FirstUnbound(op, batch, 1)
        statements == [i \in 1..Len(batch) |->
                          _get_operation_with_params(op, batch[i]).op_payload]
    IN  IF ~IsString(op) THEN [connection |-> conn, log |-> <<>>,
              exc |-> "ValueError", args |-> <<>>, cursor |-> self]
        ELSE IF bad # 0
        THEN [connection |-> conn, log |-> <<>>,
              exc |-> _get_operation_with_params(op, batch[bad]).exc,
              args |-> <<>>, cursor |-> self]
        ELSE Strict(_request(conn, net, srv,
                             Request("/db/execute?transaction", statements)),
                    LAMBDA answer :
        LET read == ReadPayload(answer.response_json) IN
        IF answer.exc # "none"
        THEN [connection |-> answer.connection, log |-> answer.log,
              exc |-> answer.exc, args |-> <<>>, cursor |-> self]
        ELSE IF read.exc # "none"
        THEN [connection |-> answer.connection, log |-> answer.log,
              exc |-> read.exc, args |-> read.args, cursor |-> self]
        ELSE [connection |-> answer.connection, log |-> answer.log,
              exc |-> "none", args |-> <<>>,
              cursor |-> [self EXCEPT !._rows = Some(<<>>), !.rownumber = 0,
                                      !.rowcount = read.rows_affected]])

\* -------------------------------------------------------- Connection.close
\* self._connection.close(): the socket, if any, is closed.
close(self) == [self EXCEPT !._connection.sock = FALSE]

\* ------------------------------------- Connection.commit, Connection.rollback
\* pass
commit(self) == self
rollback(self) == self

\* --------------------------------------------------------- Connection.ping
\* execute("SELECT 1") on a new cursor; with reconnect a failure is
\* followed by _init_connection and ping(False), which finds the new
\* HTTPConnection without a socket.  Each _init_connection is an "open" of
\* the log.
ping(self, net, srv, reconnect) ==
    IF ~self._connection.sock /\ ~reconnect
    THEN [connection |-> self, log |-> <<>>, exc |-> "Error",
          args |-> <<"Already closed">>]
    ELSE Strict(execute(NewCursor,
                        IF ~self._connection.sock
                        THEN [self EXCEPT !._connection =
                                             HTTPConnection(self.host, self.port)]
                        ELSE self,
                        net, <<"SELECT", " ", "1">>, NoParameters, srv),
                LAMBDA r :
        LET opened == IF ~self._connection.sock THEN <<Quiet("open", self)>> ELSE <<>> IN
        IF r.exc = "none"
        THEN [connection |-> r.connection, log |-> opened \o r.log, exc |-> "none",
              args |-> <<>>]
        ELSE IF reconnect
        THEN [connection |-> [r.connection EXCEPT
                                !._connection = HTTPConnection(r.connection.host,
                                                               r.connection.port)],
              log |-> opened \o r.log \o <<Quiet("open", r.connection)>>,
              exc |-> "Error", args |-> <<"Already closed">>]
        ELSE [connection |-> r.connection, log |-> opened \o r.log, exc |-> r.exc,
              args |-> r.args])

\* ------------------------------------------------------- Cursor.fetchone
\* The value returned (None, or the next row) and the cursor afterwards.
fetchone(self) ==
    IF self._rows = None \/ self.rownumber >= Len(self._rows[1])
    THEN [result |-> None, cursor |-> self]
    ELSE [result |-> Some(self._rows[1][self.rownumber + 1]),
          cursor |-> [self EXCEPT !.rownumber = @ + 1]]

\* [self.fetchone() for i in range(n)]
RECURSIVE FetchTimes(_, _, _)
FetchTimes(self, n, acc) ==
    IF n <= 0 THEN [result |-> acc, cursor |-> self]
    ELSE LET one == fetchone(self) IN
         FetchTimes(one.cursor, n - 1, Append(acc, one.result))

\* A variant of fetchmany that calls fetchone size times whatever is left.
fetchmany_unclamped(self, size) ==
    LET remaining == IF size = None THEN self.arraysize ELSE size[1] IN
    FetchTimes(self, remaining, <<>>)

\* ------------------------------------------------------ Cursor.fetchmany
fetchmany(self, size) ==
    LET remaining == IF size = None THEN self.arraysize ELSE size[1] IN
    FetchTimes(self, Min(remaining, self.rowcount - self.rownumber), <<>>)

\* ------------------------------------------------------- Cursor.fetchall
\* while self.rownumber < self.rowcount: rows.append(self.fetchone()).  A
\* fetchone() that returns None leaves rownumber as it is, so the condition
\* stays true for ever: the loop does not end.
RECURSIVE FetchAllLoop(_, _)
FetchAllLoop(self, rows) ==
    IF ~(self.rownumber < self.rowcount)
    THEN [ends |-> TRUE, result |-> rows, cursor |-> self]
    ELSE LET one == fetchone(self) IN
         IF one.result = None
         THEN [ends |-> FALSE, result |-> rows, cursor |-> self]
         ELSE FetchAllLoop(one.cursor, Append(rows, one.result))

fetchall(self) == FetchAllLoop(self, <<>>)

\* The rows among the values a call returned (None is not a row).
IsRow(x) == x # None
RowsOf(value) == SelectSeq(value, IsRow)

\* ============================================================== actions
inputs == <<entry, operation, parameters, seq_of_parameters, server, row, network>>

NoKey == [is_int |-> FALSE, name |-> "", index |-> 0]

\* cursor.execute(operation, parameters)
ExecuteCall ==
    /\ entry \in {"execute", "session"} /\ ~hung
    /\ \E r \in {execute(cursor, connection, network, operation, parameters, server)} :
       /\ cursor' = r.cursor
       /\ connection' = r.connection
       /\ log' = r.log
       /\ wire' = Sends(r.log)
       /\ ret' = Returned("execute", r.exc, r.args, None, NoKey, cursor.rownumber)
       /\ handed' = IF r.exc = "none" THEN <<>> ELSE handed
    /\ UNCHANGED <<inputs, hung, closed, registries>>

\* cursor.executemany(operation, seq_of_parameters)
ExecutemanyCall ==
    /\ entry \in {"executemany", "session"} /\ ~hung
    /\ \E r \in {executemany(cursor, connection, network, operation,
                             seq_of_parameters, server)} :
       /\ cursor' = r.cursor
       /\ connection' = r.connection
       /\ log' = r.log
       /\ wire' = Sends(r.log)
       /\ ret' = Returned("executemany", r.exc, r.args, None, NoKey, cursor.rownumber)
       /\ handed' = IF r.exc = "none" THEN <<>> ELSE handed
    /\ UNCHANGED <<inputs, hung, closed, registries>>

\* cursor.fetchone()
FetchoneCall ==
    /\ entry \in {"execute", "executemany"} /\ ~hung
    /\ LET r == fetchone(cursor) IN
       /\ cursor' = r.cursor
       /\ ret' = Returned("fetchone", "none", <<r.result>>, None, NoKey, cursor.rownumber)
       /\ handed' = handed \o RowsOf(<<r.result>>)
    /\ UNCHANGED <<inputs, wire, hung, connection, log, closed, registries>>

\* cursor.fetchmany(size), cursor.fetchmany()
FetchmanyCall ==
    /\ entry \in {"execute", "executemany"} /\ ~hung
    /\ \E size \in {None} \cup {Some(n) : n \in 0..MaxSize} :
         LET r == fetchmany(cursor, size) IN
         /\ cursor' = r.cursor
         /\ ret' = Returned("fetchmany", "none", r.result, size, NoKey, cursor.rownumber)
         /\ handed' = handed \o RowsOf(r.result)
    /\ UNCHANGED <<inputs, wire, hung, connection, log, closed, registries>>

\* cursor.fetchall(); a loop that does not end leaves the caller inside it
FetchallCall ==
    /\ entry \in {"execute", "executemany"} /\ ~hung
    /\ LET r == fetchall(cursor) IN
       /\ cursor' = r.cursor
       /\ hung' = ~r.ends
       /\ ret' = IF r.ends
                 THEN Returned("fetchall", "none", r.result, None, NoKey, cursor.rownumber)
                 ELSE Returned("fetchall", "never returns", <<>>, None, NoKey,
                               cursor.rownumber)
       /\ handed' = handed \o RowsOf(r.result)
    /\ UNCHANGED <<inputs, wire, connection, log, closed, registries>>

\* next(iter(cursor)): one step of the generator Cursor.__iter__
IterNext ==
    /\ entry \in {"execute", "executemany"} /\ ~hung
    /\ IF cursor.rownumber < cursor.rowcount
       THEN LET r == fetchone(cursor) IN
            /\ cursor' = r.cursor
            /\ ret' = Returned("__iter__", "none", <<r.result>>, None, NoKey,
                               cursor.rownumber)
            /\ handed' = handed \o RowsOf(<<r.result>>)
       ELSE /\ ret' = Returned("__iter__", "StopIteration", <<>>, None, NoKey,
                               cursor.rownumber)
            /\ UNCHANGED <<cursor, handed>>
    /\ UNCHANGED <<inputs, wire, hung, connection, log, closed, registries>>

\* cursor.close()
CloseCall ==
    /\ entry \in {"execute", "executemany"} /\ ~hung
    /\ cursor' = [cursor EXCEPT !._rows = None]
    /\ ret' = Returned("close", "none", <<>>, None, NoKey, cursor.rownumber)
    /\ UNCHANGED <<inputs, wire, handed, hung, connection, log, closed, registries>>

\* cursor.arraysize = n
SetArraysize ==
    /\ entry \in {"execute", "executemany"} /\ ~hung
    /\ \E n \in {1, MaxSize} :
         /\ n # cursor.arraysize
         /\ cursor' = [cursor EXCEPT !.arraysize = n]
    /\ ret' = Returned("arraysize", "none", <<>>, None, NoKey, cursor.rownumber)
    /\ UNCHANGED <<inputs, wire, handed, hung, connection, log, closed, registries>>

\* row[k]
RowSubscript ==
    /\ entry = "row"
    /\ \E k \in {NameKey(n) : n \in {"id", "name", "other"}}
             \cup {IntKey(i) : i \in -(MaxCols + 1)..(MaxCols + 1)} :
         LET r == RowGetItem(row, k) IN
         ret' = Returned("row[]", r.exc, r.value, None, k, 0)
    /\ UNCHANGED <<inputs, cursor, wire, handed, hung, connection, log, closed, registries>>

\* row.keys(), row.values(), row.items(), len(row)
RowViews ==
    /\ entry = "row"
    /\ \/ ret' = Returned("keys", "none", RowKeys(row), None, NoKey, 0)
       \/ ret' = Returned("values", "none", RowValues(row), None, NoKey, 0)
       \/ ret' = Returned("items", "none", RowItems(row), None, NoKey, 0)
       \/ ret' = Returned("len", "none", <<RowLen(row)>>, None, NoKey, 0)
    /\ UNCHANGED <<inputs, cursor, wire, handed, hung, connection, log, closed, registries>>

\* connection.close()
ConnectionClose ==
    /\ entry \in {"execute", "executemany"} /\ ~hung
    /\ connection' = close(connection)
    /\ closed' = TRUE
    /\ log' = <<Quiet("close", connection)>>
    /\ wire' = <<>>
    /\ ret' = Returned("Connection.close", "none", <<>>, None, NoKey, cursor.rownumber)
    /\ UNCHANGED <<inputs, cursor, handed, hung, registries>>

\* connection.commit()
ConnectionCommit ==
    /\ entry \in {"execute", "executemany"} /\ ~hung
    /\ connection' = commit(connection)
    /\ log' = <<>>
    /\ wire' = <<>>
    /\ ret' = Returned("commit", "none", <<>>, None, NoKey, cursor.rownumber)
    /\ UNCHANGED <<inputs, cursor, handed, hung, closed, registries>>

\* connection.rollback()
ConnectionRollback ==
    /\ entry \in {"execute", "executemany"} /\ ~hung
    /\ connection' = rollback(connection)
    /\ log' = <<>>
    /\ wire' = <<>>
    /\ ret' = Returned("rollback", "none", <<>>, None, NoKey, cursor.rownumber)
    /\ UNCHANGED <<inputs, cursor, handed, hung, closed, registries>>

\* connection.ping(), connection.ping(False)
PingCall ==
    /\ entry \in {"execute", "executemany"} /\ ~hung
    /\ \E reconnect \in BOOLEAN :
         \E r \in {ping(connection, network, server, reconnect)} :
         /\ connection' = r.connection
         /\ log' = r.log
         /\ wire' = Sends(r.log)
         /\ ret' = Returned("ping", r.exc, r.args, None, NoKey, cursor.rownumber)
    /\ UNCHANGED <<inputs, cursor, handed, hung, closed, registries>>

\* =============================================================== inputs
SeqsUpTo(S, n) == UNION {[1..k -> S] : k \in 0..n}

\* statements for the binder: "insert " and up to MaxBody characters
BindChars == {"?", ":", "a", "b", "'"}
BindOps == {<<"insert", " ">> \o body : body \in SeqsUpTo(BindChars, MaxBody)}

DictKeys == {<<"a">>, <<"b">>}
Dicts == UNION {{DictParameters(e, m) : e \in [K -> {AnInt, PyObject}],
                                        m \in {None, Some(AStr)}} :
                K \in SUBSET DictKeys}
BindParams ==
    {NoParameters}
    \cup {SeqParameters(s) : s \in SeqsUpTo({AStr, PyObject}, MaxParams)}
    \cup Dicts

\* statements and batches for executemany's binder
ManyOps == {<<"insert">>, <<"insert", " ", "?">>, <<"insert", " ", ":", "a">>,
            <<"insert", " ", "?", ":", "a">>}
BatchParams == {NoParameters, SeqParameters(<<>>), SeqParameters(<<AnInt>>),
                SeqParameters(<<PyObject>>),
                DictParameters([k \in {<<"a">>} |-> AnInt], None)}

\* statements for the cursor: each keyword, alone and with one marker
CursorOps == {<<kw>> : kw \in Keywords} \cup {<<kw, " ", "?">> : kw \in Keywords}
CursorParams == {NoParameters, SeqParameters(<<AStr>>)}

\* result sets: columns id, name of declared types integer, text; row i is (i, "foo")
Columns == <<<<"i", "d">>, <<"n", "a", "m", "e">>>>
Types == <<<<"i", "n", "t", "e", "g", "e", "r">>, <<"t", "e", "x", "t">>>>
TableRows(k) == [i \in 1..k |-> <<PyInt(i), PyStr(<<"f", "o", "o">>)>>]
LastInsertIds == {7}

QueryAnswers ==
    {Envelope(FALSE, <<>>), Envelope(TRUE, <<>>), Envelope(TRUE, <<ErrorItem>>)}
    \cup {Envelope(TRUE, <<QueryItem(Columns, t, v)>>) :
            t \in {None, Some(Types)},
            v \in {None} \cup {Some(TableRows(k)) : k \in 0..MaxRows}}

Affected == {None} \cup {Some(n) : n \in 0..MaxAffected}
ExecuteAnswers ==
    {Envelope(FALSE, <<>>), Envelope(TRUE, <<>>), Envelope(TRUE, <<ErrorItem>>)}
    \cup {Envelope(TRUE, <<ExecuteItem(a, l)>>) :
            a \in Affected, l \in {None} \cup {Some(i) : i \in LastInsertIds}}
BatchAnswers ==
    {Envelope(FALSE, <<>>)}
    \cup {Envelope(TRUE, r) :
            r \in SeqsUpTo({ErrorItem} \cup {ExecuteItem(a, None) : a \in Affected},
                           MaxBatch)}

DefaultQuery == Envelope(TRUE, <<QueryItem(Columns, Some(Types), Some(TableRows(1)))>>)
DefaultExecute == Envelope(TRUE, <<ExecuteItem(Some(1), Some(7))>>)
Server(status, query, execute_) ==
    [status |-> status, query |-> query, execute |-> execute_, echo |-> None]
HealthyServer == Server(HTTP_OK, DefaultQuery, DefaultExecute)

Servers ==
    {Server(HTTP_OK, q, DefaultExecute) : q \in QueryAnswers}
    \cup {Server(HTTP_OK, DefaultQuery, x) : x \in ExecuteAnswers}
    \cup {Server(503, DefaultQuery, DefaultExecute)}
BatchServers ==
    {Server(HTTP_OK, DefaultQuery, x) : x \in BatchAnswers}
    \cup {Server(503, DefaultQuery, DefaultExecute)}

\* pyrqlite.connect(): host "localhost", port 4001, every redirect followed
DefaultConnection == NewConnection("localhost", 4001, UNLIMITED_REDIRECTS, 0)

RowNames == {"id", "name"}
RowVals == {1, 2}
RowItemSeqs == SeqsUpTo(RowNames \X RowVals, MaxCols)

\* ------------------------------------------------- inputs of the registries
\* detect_types of a connection: no flag, either, both
DetectTypes == {0, PARSE_DECLTYPES, PARSE_COLNAMES, PARSE_DECLTYPES + PARSE_COLNAMES}

\* column names: plain, with a hint, and a number (select 1)
ColumnNames == {<<"x">>, <<"x", " ", "[", "f", "o", "o", "]">>, <<"1">>}

\* declared types: none, integer, foo, number and number(5)
DeclTypes ==
    {<<>>, <<"i", "n", "t", "e", "g", "e", "r">>, <<"f", "o", "o">>,
     <<"n", "u", "m", "b", "e", "r">>, <<"n", "u", "m", "b", "e", "r", "(", "5", ")">>}

\* values of the JSON rows: a number, null, the base64 of b"xxx", a date
ADateText == <<"2", "0", "0", "4", "-", "0", "2", "-", "1", "4">>
WireValues == {PyInt(5), PyNone, PyStr(<<"e", "H", "h", "4">>), PyStr(ADateText)}

\* what register_converter is called with
ConverterNames ==
    {<<"f", "o", "o">>, <<"n", "u", "m", "b", "e", "r">>,
     <<"i", "n", "t", "e", "g", "e", "r">>}
ConverterFunctions == {"bracket", "float"}

\* what register_adapter is called with, and the types del is tried on
AdapterTypes == {"int", "bool", "str", "date", "object"}
AdapterRegistrations ==
    ({"int", "bool"} \X {"cast"}) \cup ({"int", "str", "date", "object"} \X {"quote"})

\* the parameters adapted
Dates == {PyDate(2004, 2, 14), PyDate(1, 1, 1), PyDate(9999, 12, 31)}
SelfAdapting ==
    {PyInstance("Adapting", <<"__adapt__">>), PyInstance("Conforming", <<"__conform__">>),
     PyInstance("Both", <<"__adapt__", "__conform__">>)}
AdaptedValues == Dates \cup {AnInt, AStr, PyBool(TRUE), PyNone, PyObject} \cup SelfAdapting

\* a node whose table has one column of the given name and declared type
StoringServer(column, type_) ==
    [status |-> HTTP_OK, query |-> DefaultQuery, execute |-> DefaultExecute,
     echo |-> Some([columns |-> <<column>>, types |-> <<type_>>])]
StoredTypes == {<<"d", "a", "t", "e">>, <<"t", "e", "x", "t">>}

\* ================================================================ specs
Fresh ==
    /\ cursor = NewCursor
    /\ ret = Returned("none", "none", <<>>, None, NoKey, 0)
    /\ wire = <<>>
    /\ log = <<>>
    /\ closed = FALSE
    /\ adapters = _default_adapters
    /\ converters = DefaultConverters
    /\ handed = <<>>
    /\ hung = FALSE

\* A cursor of a connection to some node, and the one statement the caller
\* runs on it, by execute or by executemany.
Init ==
    /\ Fresh
    /\ row = Row(<<>>)
    /\ network = NoFaults
    /\ connection = DefaultConnection
    /\ \/ /\ entry = "execute"
          /\ operation \in CursorOps
          /\ parameters \in CursorParams
          /\ seq_of_parameters = <<>>
          /\ server \in Servers
       \/ /\ entry = "executemany"
          /\ operation \in {<<"insert", " ", "?">>, <<"update", " ", "?">>,
                            <<"select", " ", "?">>}
          /\ parameters = NoParameters
          /\ seq_of_parameters \in
                {[i \in 1..n |-> SeqParameters(<<AnInt>>)] : n \in 0..MaxBatch}
          /\ server \in BatchServers

Next ==
    \/ ExecuteCall
    \/ ExecutemanyCall
    \/ FetchoneCall
    \/ FetchmanyCall
    \/ FetchallCall
    \/ IterNext
    \/ CloseCall
    \/ SetArraysize

Spec == Init /\ [][Next]_vars

\* The binder on every drawn statement and parameter collection, the node
\* answering as a healthy node does.
InitBind ==
    /\ Fresh
    /\ row = Row(<<>>)
    /\ network = NoFaults
    /\ connection = DefaultConnection
    /\ server = HealthyServer
    /\ \/ /\ entry = "execute"
          /\ operation \in BindOps
          /\ parameters \in BindParams
          /\ seq_of_parameters = <<>>
       \/ /\ entry = "executemany"
          /\ operation \in ManyOps
          /\ parameters = NoParameters
          /\ seq_of_parameters \in SeqsUpTo(BatchParams, MaxBatch)

NextBind == ExecuteCall \/ ExecutemanyCall

SpecBind == InitBind /\ [][NextBind]_vars

\* A Row built from drawn pairs, and the caller reading it.
InitRow ==
    /\ Fresh
    /\ entry = "row"
    /\ network = NoFaults
    /\ connection = DefaultConnection
    /\ operation = <<>>
    /\ parameters = NoParameters
    /\ seq_of_parameters = <<>>
    /\ server = HealthyServer
    /\ row \in {Row(items) : items \in RowItemSeqs}

NextRow == RowSubscript \/ RowViews

SpecRow == InitRow /\ [][NextRow]_vars

\* The transport: a connection with some redirect limit, a cluster that
\* drops attempts and redirects, and the caller's statement.
\* A request is answered at once, or at the last try, or never within the
\* tries; a redirect without a Location, and a request never answered, end
\* the call, so they come last.
FailCounts == {0, TRIES - 1, TRIES}
Targets == {[host |-> "localhost", port |-> 4001], [host |-> "node2", port |-> 4003]}
RedirectHops == {RedirectHop(f, l) : f \in FailCounts \ {TRIES},
                                    l \in {None} \cup {Some(t) : t \in Targets}}
Networks == {Network(h, f) : h \in {hops \in SeqsUpTo(RedirectHops, MaxHops) :
                                      \A i \in 1..(Len(hops) - 1) :
                                          hops[i].location # None},
                             f \in FailCounts}
RedirectLimits == {UNLIMITED_REDIRECTS} \cup 0..MaxRedirects

InitTransport ==
    /\ Fresh
    /\ row = Row(<<>>)
    /\ network \in Networks
    /\ connection \in {NewConnection("localhost", 4001, m, 0) : m \in RedirectLimits}
    /\ server = HealthyServer
    /\ \/ /\ entry = "execute"
          /\ operation = <<"select">>
          /\ parameters = NoParameters
          /\ seq_of_parameters = <<>>
       \/ /\ entry = "executemany"
          /\ operation = <<"insert", " ", "?">>
          /\ parameters = NoParameters
          /\ seq_of_parameters = <<SeqParameters(<<AnInt>>), SeqParameters(<<AnInt>>)>>

NextTransport ==
    \/ ExecuteCall
    \/ ExecutemanyCall
    \/ PingCall
    \/ ConnectionClose
    \/ ConnectionCommit
    \/ ConnectionRollback

SpecTransport == InitTransport /\ [][NextTransport]_vars

\* ===================================================== the type registries
\* register_converter(type_string, function)
RegisterConverter ==
    /\ entry = "execute" /\ ~hung
    /\ \E type_string \in ConverterNames, function \in ConverterFunctions :
          converters' = register_converter(converters, type_string, function)
    /\ ret' = Returned("register_converter", "none", <<>>, None, NoKey, cursor.rownumber)
    /\ UNCHANGED <<inputs, cursor, connection, log, wire, handed, hung, closed, adapters>>

\* del converters[NAME]: KeyError for a name the registry does not hold
UnregisterConverter ==
    /\ entry = "execute" /\ ~hung
    /\ \E type_string \in {str_upper(name) : name \in ConverterNames} :
          IF type_string \in DOMAIN converters
          THEN /\ converters' = unregister_converter(converters, type_string)
               /\ ret' = Returned("del converters[]", "none", <<>>, None, NoKey,
                                  cursor.rownumber)
          ELSE /\ converters' = converters
               /\ ret' = Returned("del converters[]", "KeyError", <<>>, None, NoKey,
                                  cursor.rownumber)
    /\ UNCHANGED <<inputs, cursor, connection, log, wire, handed, hung, closed, adapters>>

\* register_adapter(type_, function)
RegisterAdapter ==
    /\ entry = "execute" /\ ~hung
    /\ \E registration \in AdapterRegistrations :
          adapters' = register_adapter(adapters, registration[1], registration[2])
    /\ ret' = Returned("register_adapter", "none", <<>>, None, NoKey, cursor.rownumber)
    /\ UNCHANGED <<inputs, cursor, connection, log, wire, handed, hung, closed, converters>>

\* del adapters[(type_, sqlite3.PrepareProtocol)]: KeyError for a type the
\* table does not hold
UnregisterAdapter ==
    /\ entry = "execute" /\ ~hung
    /\ \E type_ \in AdapterTypes :
          IF type_ \in DOMAIN adapters
          THEN /\ adapters' = unregister_adapter(adapters, type_)
               /\ ret' = Returned("del adapters[]", "none", <<>>, None, NoKey,
                                  cursor.rownumber)
          ELSE /\ adapters' = adapters
               /\ ret' = Returned("del adapters[]", "KeyError", <<>>, None, NoKey,
                                  cursor.rownumber)
    /\ UNCHANGED <<inputs, cursor, connection, log, wire, handed, hung, closed, converters>>

\* A query of one column and one row on a connection of any detect_types,
\* while converters are registered.
InitConv ==
    /\ Fresh
    /\ row = Row(<<>>)
    /\ network = NoFaults
    /\ connection \in {NewConnection("localhost", 4001, UNLIMITED_REDIRECTS, d) :
                          d \in DetectTypes}
    /\ server \in {Server(HTTP_OK,
                          Envelope(TRUE, <<QueryItem(<<c>>, Some(<<t>>), Some(<<<<v>>>>))>>),
                          DefaultExecute) :
                      c \in ColumnNames, t \in DeclTypes, v \in WireValues}
    /\ entry = "execute"
    /\ operation = <<"select">>
    /\ parameters = NoParameters
    /\ seq_of_parameters = <<>>

NextConv ==
    \/ ExecuteCall
    \/ RegisterConverter

SpecConv == InitConv /\ [][NextConv]_vars

\* The same query of an integer cell, while converters are registered and
\* their registrations deleted again, as the set-up and the tear-down of
\* the type tests do.
InitReg ==
    /\ Fresh
    /\ row = Row(<<>>)
    /\ network = NoFaults
    /\ connection \in {NewConnection("localhost", 4001, UNLIMITED_REDIRECTS, d) :
                          d \in DetectTypes}
    /\ server \in {Server(HTTP_OK,
                          Envelope(TRUE, <<QueryItem(<<c>>, Some(<<t>>),
                                                     Some(<<<<PyInt(5)>>>>))>>),
                          DefaultExecute) :
                      c \in ColumnNames, t \in DeclTypes}
    /\ entry = "execute"
    /\ operation = <<"select">>
    /\ parameters = NoParameters
    /\ seq_of_parameters = <<>>

\* statements with string literals: "insert " and up to MaxLiteral
\* characters, among them both quotes and the backslash
LiteralChars == {"?", ":", "a", "'", "\"", "\\"}
LiteralOps == {<<"insert", " ">> \o body : body \in SeqsUpTo(LiteralChars, MaxLiteral)}

\* Each of those statements run by execute without parameters and with one.
InitStrip ==
    /\ Fresh
    /\ row = Row(<<>>)
    /\ network = NoFaults
    /\ connection = DefaultConnection
    /\ server = HealthyServer
    /\ entry = "execute"
    /\ operation \in LiteralOps
    /\ parameters \in {NoParameters, SeqParameters(<<AStr>>)}
    /\ seq_of_parameters = <<>>

NextStrip == ExecuteCall

SpecStrip == InitStrip /\ [][NextStrip]_vars

\* the nodes of a session: the query answered with one column, named with
\* or without a hint, and no row list, no row or one row; the execute
\* answered as a healthy node does or with an error; or every request
\* answered 503; or the query answered with the text a in an integer column
SessionServers ==
    {Server(HTTP_OK, Envelope(TRUE, <<QueryItem(<<c>>, Some(<<<<>>>>), v)>>), x) :
        c \in {<<"x">>, <<"x", " ", "[", "f", "o", "o", "]">>},
        v \in {None, Some(<<>>), Some(<<<<PyInt(5)>>>>)},
        x \in {DefaultExecute, Envelope(TRUE, <<ErrorItem>>)}}
    \cup {Server(503, DefaultQuery, DefaultExecute),
          Server(HTTP_OK,
                 Envelope(TRUE, <<QueryItem(<<<<"x">>>>,
                                            Some(<<<<"i", "n", "t", "e", "g", "e", "r">>>>),
                                            Some(<<<<AStr>>>>))>>),
                 DefaultExecute)}

\* A cursor on which the caller runs one statement both ways, by execute
\* with its parameters and by executemany with its batch, in any order and
\* any number of times, every request meeting the same faults.
InitSession ==
    /\ Fresh
    /\ row = Row(<<>>)
    /\ network \in {NoFaults, Network(<<>>, TRIES)}
    /\ connection \in {NewConnection("localhost", 4001, UNLIMITED_REDIRECTS, d) :
                          d \in {0, PARSE_COLNAMES}}
    /\ server \in SessionServers
    /\ entry = "session"
    /\ operation \in {<<"select">>, <<"select", " ", "?">>, <<"insert", " ", "?">>,
                      <<"update", " ", "?">>, NotAString}
    /\ parameters \in {NoParameters, SeqParameters(<<AStr>>)}
    /\ seq_of_parameters \in
          {<<>>, <<SeqParameters(<<>>)>>, <<SeqParameters(<<AnInt>>)>>,
           <<SeqParameters(<<AnInt>>), SeqParameters(<<PyObject>>)>>}

NextSession ==
    \/ ExecuteCall
    \/ ExecutemanyCall

SpecSession == InitSession /\ [][NextSession]_vars

\* the declared types of the columns a null is read from
NullTypes ==
    {<<>>, <<"i", "n", "t", "e", "g", "e", "r">>, <<"r", "e", "a", "l">>,
     <<"b", "l", "o", "b">>, <<"d", "a", "t", "e">>,
     <<"d", "a", "t", "e", "t", "i", "m", "e">>,
     <<"t", "i", "m", "e", "s", "t", "a", "m", "p">>, <<"t", "e", "x", "t">>,
     <<"v", "a", "r", "c", "h", "a", "r", "(", "1", "0", ")">>}

\* A query whose one cell is null, with the converters the module is
\* imported with.
InitNull ==
    /\ Fresh
    /\ row = Row(<<>>)
    /\ network = NoFaults
    /\ connection \in {NewConnection("localhost", 4001, UNLIMITED_REDIRECTS, d) :
                          d \in DetectTypes}
    /\ server \in {Server(HTTP_OK,
                          Envelope(TRUE, <<QueryItem(<<c>>, Some(<<t>>),
                                                     Some(<<<<PyNone>>>>))>>),
                          DefaultExecute) :
                      c \in ColumnNames, t \in NullTypes}
    /\ entry = "execute"
    /\ operation = <<"select">>
    /\ parameters = NoParameters
    /\ seq_of_parameters = <<>>

NextNull == ExecuteCall

SpecNull == InitNull /\ [][NextNull]_vars

NextReg ==
    \/ ExecuteCall
    \/ RegisterConverter
    \/ UnregisterConverter

SpecReg == InitReg /\ [][NextReg]_vars

\* A query with one parameter on a node that keeps what it is given, while
\* adapters are registered and removed.
InitAdapt ==
    /\ Fresh
    /\ row = Row(<<>>)
    /\ network = NoFaults
    /\ connection \in {NewConnection("localhost", 4001, UNLIMITED_REDIRECTS, d) :
                          d \in {0, PARSE_DECLTYPES}}
    /\ server \in {StoringServer(<<"d">>, t) : t \in StoredTypes}
    /\ entry = "execute"
    /\ operation = <<"select", " ", "?">>
    /\ parameters \in {SeqParameters(<<v>>) : v \in AdaptedValues}
    /\ seq_of_parameters = <<>>

NextAdapt ==
    \/ ExecuteCall
    \/ RegisterAdapter
    \/ UnregisterAdapter

SpecAdapt == InitAdapt /\ [][NextAdapt]_vars

\* =============================================================== claims
\* What the claims speak of, stated apart from the code's own scanning.

\* Statements of BindOps and ManyOps hold no double quote and no backslash:
\* a character lies outside the string literals when it is no quote and an
\* even number of quotes precedes it.
Outside(op, i) ==
    op[i] # "'" /\ Cardinality({j \in 1..(i - 1) : op[j] = "'"}) % 2 = 0

RECURSIVE RemoveFrom(_, _)
RemoveFrom(op, i) ==
    IF i > Len(op) THEN <<>>
    ELSE (IF Outside(op, i) THEN <<op[i]>> ELSE <<>>) \o RemoveFrom(op, i + 1)

\* the statement's text with its string literals removed
LiteralsRemoved(op) == RemoveFrom(op, 1)

\* the number of '?' markers of a text
PositionalMarkers(t) == Cardinality({i \in 1..Len(t) : t[i] = "?"})

\* the places of a text where a named marker starts: a colon, then a letter
MarkerStarts(t) == {i \in 1..(Len(t) - 1) : t[i] = ":" /\ IsAlpha(t[i + 1])}

\* the names the named markers of a text refer to: the letters after the colon
MarkerNames(t) ==
    {SubSeq(t, i + 1, e) : <<i, e>> \in
        {p \in MarkerStarts(t) \X (1..Len(t)) :
            /\ p[1] < p[2]
            /\ \A j \in (p[1] + 1)..p[2] : IsAlpha(t[j])
            /\ (p[2] = Len(t) \/ ~IsAlpha(t[p[2] + 1]))}}

\* a value some adapter accepts
Adaptable(value) == value.type # "object"

\* a mapping resolves a name by a key or by its missing-key default
Resolves(mapping, name) == name \in DOMAIN mapping.entries \/ mapping.missing # None

StatementText == LiteralsRemoved(operation)

C2_NamedBindingAnyStatement ==
    (/\ ret.method = "execute"
     /\ MarkerNames(StatementText) # {}
     /\ parameters.kind = "dict")
    => /\ (\E name \in MarkerNames(StatementText) : ~Resolves(parameters, name))
          => ret.exc = "ProgrammingError"
       /\ (\A name \in MarkerNames(StatementText) : Resolves(parameters, name))
          => ret.exc # "ProgrammingError"

\* C2, amended: a statement with named markers and no positional marker:
\* execute with a mapping that cannot resolve one of the names raises
\* ProgrammingError; with a mapping that resolves every name (also by its
\* missing-key default) the binding succeeds whatever other keys the mapping
\* has, and the request carries exactly the referenced names when their
\* values are adaptable.
C2_NamedBinding ==
    (/\ ret.method = "execute"
     /\ MarkerNames(StatementText) # {}
     /\ PositionalMarkers(StatementText) = 0
     /\ parameters.kind = "dict")
    => /\ (\E name \in MarkerNames(StatementText) : ~Resolves(parameters, name))
          => ret.exc = "ProgrammingError"
       /\ (\A name \in MarkerNames(StatementText) : Resolves(parameters, name))
          => /\ ret.exc # "ProgrammingError"
             /\ (\A name \in MarkerNames(StatementText) :
                    Adaptable(DictGetItem(parameters, name).value))
                => (/\ ret.exc = "none"
                    /\ Len(wire) = 1
                    /\ DOMAIN wire[1].statements[1].named = MarkerNames(StatementText))

\* C2's case: a name resolved by the mapping's default, and a key the
\* statement does not use.
C2_Witness ==
    /\ ret.method = "execute" /\ ret.exc = "none"
    /\ PositionalMarkers(StatementText) = 0
    /\ parameters.kind = "dict"
    /\ \E name \in MarkerNames(StatementText) : name \notin DOMAIN parameters.entries
    /\ \E key \in DOMAIN parameters.entries : key \notin MarkerNames(StatementText)

\* C3: execute raises ProgrammingError when the statement mixes positional
\* and named markers, when it gets a mapping for a statement with positional
\* markers, and when it gets a sequence for a statement with named markers,
\* whatever the length of the sequence.
C3_StyleConsistency ==
    ret.method = "execute" =>
        /\ (PositionalMarkers(StatementText) > 0 /\ MarkerNames(StatementText) # {})
           => ret.exc = "ProgrammingError"
        /\ (PositionalMarkers(StatementText) > 0 /\ parameters.kind = "dict")
           => ret.exc = "ProgrammingError"
        /\ (MarkerNames(StatementText) # {} /\ parameters.kind = "sequence")
           => ret.exc = "ProgrammingError"

\* C3's case: a sequence as long as the statement has named markers.
C3_Witness ==
    /\ ret.method = "execute" /\ ret.exc = "ProgrammingError"
    /\ PositionalMarkers(StatementText) = 0
    /\ parameters.kind = "sequence"
    /\ Cardinality(MarkerStarts(StatementText)) = Len(parameters.items)
    /\ Len(parameters.items) > 0

\* the parameter sets of the call that the binder or an adapter rejects
Rejected(op, params) == _get_operation_with_params(op, params).exc # "none"

\* C4: when binding or adapting fails in execute, or for one parameter set
\* of executemany, the call raises that error and sent no request, not even
\* for the parameter sets that were valid.
C4_NoRequestOnBindingFailure ==
    /\ (ret.method = "execute" /\ Rejected(operation, parameters))
       => (wire = <<>> /\ ret.exc \in {"ProgrammingError", "InterfaceError"})
    /\ (/\ ret.method = "executemany"
        /\ \E i \in 1..Len(seq_of_parameters) : Rejected(operation, seq_of_parameters[i]))
       => (wire = <<>> /\ ret.exc \in {"ProgrammingError", "InterfaceError"})

\* C4's case: a batch whose first set is valid and whose second is not.
C4_Witness ==
    /\ ret.method = "executemany"
    /\ Len(seq_of_parameters) = 2
    /\ ~Rejected(operation, seq_of_parameters[1])
    /\ Rejected(operation, seq_of_parameters[2])
    /\ wire = <<>>

\* ------------------------------------------------ the cursor's claims
\* The cursor holds the result set of an execute: the rows the last
\* successful execute decoded from a result with columns.
HasResultSet ==
    entry = "execute" /\ cursor._rows # None /\ cursor.description # None

FetchMethods == {"fetchone", "fetchmany", "fetchall", "__iter__"}

\* rows i..j of the result set, as the fetch calls return them
Slice(rows, i, j) == [n \in 1..(j - i + 1) |-> Some(rows[i + n - 1])]

\* C5: after an execute that decoded rows r1..rk, whatever fetchone,
\* fetchmany, fetchall and iteration calls follow, the rows handed out so far
\* are r1..r(rownumber): in result order, each once; every call returns the
\* next rows and nothing else, fetchall all that are left; once all are
\* handed out fetchone returns None, fetchmany and fetchall return [] and
\* the iteration stops.  On a cursor that has executed nothing fetchone
\* returns None.
C5_FetchSequencing ==
    /\ HasResultSet =>
         LET rows == cursor._rows[1]
             k == Len(rows)
         IN  /\ cursor.rownumber <= k
             /\ handed = Slice(rows, 1, cursor.rownumber)
             /\ ret.method \in FetchMethods =>
                  /\ ret.exc # "never returns"
                  /\ RowsOf(ret.value) = Slice(rows, ret.before + 1, cursor.rownumber)
                  /\ ret.method \in {"fetchmany", "fetchall"} => RowsOf(ret.value) = ret.value
                  /\ (ret.method \in {"fetchone", "__iter__"} /\ ret.before < k)
                     => ret.value = <<Some(rows[ret.before + 1])>>
                  /\ ret.method = "fetchall" => cursor.rownumber = k
                  /\ (ret.method = "fetchone" /\ ret.before = k) => ret.value = <<None>>
                  /\ (ret.method \in {"fetchmany", "fetchall"} /\ ret.before = k)
                     => ret.value = <<>>
                  /\ (ret.method = "__iter__" /\ ret.before = k)
                     => ret.exc = "StopIteration"
    /\ (ret.method = "fetchone" /\ [cursor EXCEPT !.arraysize = 1] = NewCursor)
       => ret.value = <<None>>

\* C5's case: two rows decoded, both handed out, and a fetchall after that.
C5_Witness ==
    /\ HasResultSet
    /\ Len(cursor._rows[1]) = 2
    /\ Len(handed) = 2
    /\ ret.method = "fetchall" /\ ret.before = 2 /\ ret.value = <<>>

\* the rows of the current result set not fetched when the last call began
Unfetched == IF cursor._rows = None THEN 0 ELSE Len(cursor._rows[1]) - ret.before

\* C6: in every cursor state fetchmany(size) returns min(size, rows of the
\* current result set not yet fetched) values, that number being 0 when the
\* cursor has no result set; without a size it uses arraysize, which is 1 on
\* a new cursor.
C6_FetchmanySize ==
    /\ NewCursor.arraysize = 1
    /\ ret.method = "fetchmany" =>
         LET size == IF ret.size = None THEN cursor.arraysize ELSE ret.size[1] IN
         /\ Len(ret.value) = Min(size, Unfetched)
         /\ RowsOf(ret.value) = ret.value

\* the response the node gave to the request of the last call
Response == Respond(server, wire[1]).json

RECURSIVE SumAffected(_)
SumAffected(results) ==
    IF results = <<>> THEN 0
    ELSE (IF Head(results).rows_affected = None THEN 0
          ELSE Head(results).rows_affected[1]) + SumAffected(Tail(results))

\* the rows a response carries: the values of its result with columns
RECURSIVE AnsweredRows(_)
AnsweredRows(results) ==
    IF results = <<>> THEN 0
    ELSE IF /\ Head(results).columns # None
            /\ Head(results).types # None
            /\ Head(results).values # None
    THEN Len(Head(results).values[1])
    ELSE AnsweredRows(Tail(results))

\* the statement's first token is UPDATE or DELETE, in any case of letters
IsUpdateOrDelete(op) == op # <<>> /\ upper(op[1]) \in {"UPDATE", "DELETE"}

\* C7 as stated: when execute returns, rowcount is the sum of rows_affected
\* over all results of the response if the first token is UPDATE or DELETE,
\* and the number of decoded rows for every other statement.
C7_RowcountRuleAsStated ==
    (ret.method = "execute" /\ ret.exc = "none") =>
        cursor.rowcount = IF IsUpdateOrDelete(operation)
                          THEN SumAffected(Response.results)
                          ELSE AnsweredRows(Response.results)

\* C7, amended: when execute returns, rowcount is, for a statement whose
\* first token is UPDATE or DELETE, the sum of rows_affected over all results
\* of the response when the response has a results list and -1 when it has
\* none, and the number of decoded rows for every other statement: a SELECT
\* matching no row gives 0, an UPDATE affecting 2 rows 2, a SELECT matching
\* 2 rows 2.
C7_RowcountRule ==
    (ret.method = "execute" /\ ret.exc = "none") =>
        /\ cursor.rowcount =
              IF IsUpdateOrDelete(operation)
              THEN (IF Response.has_results THEN SumAffected(Response.results) ELSE -1)
              ELSE AnsweredRows(Response.results)
        /\ ~IsUpdateOrDelete(operation) => cursor.rowcount = Len(cursor._rows[1])

\* C7's case: an UPDATE the node reports 2 rows affected for.
C7_Witness ==
    /\ ret.method = "execute" /\ ret.exc = "none"
    /\ upper(operation[1]) = "UPDATE"
    /\ Response.has_results
    /\ SumAffected(Response.results) = 2
    /\ cursor.rowcount = 2

\* C8: execute of a one-row INSERT with one positional parameter, answered
\* with rows_affected 1 and a last_insert_id, leaves the cursor with
\* rowcount 1 and lastrowid equal to that last_insert_id.
C8_InsertScenario ==
    (/\ ret.method = "execute" /\ ret.exc = "none"
     /\ operation = <<"insert", " ", "?">>
     /\ parameters = SeqParameters(<<AStr>>)
     /\ Response = Envelope(TRUE, <<ExecuteItem(Some(1), Some(7))>>))
    => (cursor.rowcount = 1 /\ cursor.lastrowid = Some(7))

\* C9 as stated: executemany sends the whole batch as one request, and
\* afterwards rowcount is the sum of rows_affected over all results of that
\* response.
C9_ExecutemanyAsStated ==
    (/\ ret.method = "executemany"
     /\ \A i \in 1..Len(seq_of_parameters) : ~Rejected(operation, seq_of_parameters[i]))
    =>
        /\ Len(wire) = 1
        /\ Len(wire[1].statements) = Len(seq_of_parameters)
        /\ ret.exc = "none" => cursor.rowcount = SumAffected(Response.results)

\* C9, amended: executemany sends the whole batch as one request, and
\* afterwards rowcount is the sum of rows_affected over all results of that
\* response when the response has a results list, and -1 when it has none.
C9_Executemany ==
    (/\ ret.method = "executemany"
     /\ \A i \in 1..Len(seq_of_parameters) : ~Rejected(operation, seq_of_parameters[i]))
    =>
        /\ Len(wire) = 1
        /\ wire[1].path = "/db/execute?transaction"
        /\ Len(wire[1].statements) = Len(seq_of_parameters)
        /\ ret.exc = "none" =>
             cursor.rowcount = IF Response.has_results
                               THEN SumAffected(Response.results) ELSE -1

\* C9's case: a batch of MaxBatch one-row inserts.
C9_Witness ==
    /\ ret.method = "executemany" /\ ret.exc = "none"
    /\ operation[1] = "insert"
    /\ Len(seq_of_parameters) = MaxBatch
    /\ Len(Response.results) = MaxBatch
    /\ \A i \in 1..MaxBatch : Response.results[i].rows_affected = Some(1)
    /\ cursor.rowcount = MaxBatch

\* ---------------------------------------------------- the Row's claim
\* the first pair of items with that name, 0 if there is none
FirstPair(items, name) ==
    IF \E i \in 1..Len(items) : items[i][1] = name
    THEN CHOOSE i \in 1..Len(items) :
            /\ items[i][1] = name
            /\ \A j \in 1..(i - 1) : items[j][1] # name
    ELSE 0

\* C10: for every Row built from pairs (name_i, value_i): row[i] is value_i
\* for each position i, len(row) is the number of pairs, keys(), values()
\* and items() list all pairs in order, pairs with a repeated name too,
\* row[name] is the value of the first pair with that name, an unknown name
\* raises KeyError and a position out of range raises IndexError.
C10_RowAccess ==
    \A items \in RowItemSeqs :
        row = Row(items) =>
            LET n == Len(items) IN
            /\ (ret.method = "row[]" /\ ret.key.is_int) =>
                 /\ (0 <= ret.key.index /\ ret.key.index < n)
                    => (ret.exc = "none" /\ ret.value = Some(items[ret.key.index + 1][2]))
                 /\ (ret.key.index >= n \/ ret.key.index < -n)
                    => ret.exc = "IndexError"
            /\ (ret.method = "row[]" /\ ~ret.key.is_int) =>
                 IF FirstPair(items, ret.key.name) = 0
                 THEN ret.exc = "KeyError"
                 ELSE /\ ret.exc = "none"
                      /\ ret.value = Some(items[FirstPair(items, ret.key.name)][2])
            /\ ret.method = "len" => ret.value = <<n>>
            /\ ret.method = "keys" => ret.value = [i \in 1..n |-> items[i][1]]
            /\ ret.method = "values" => ret.value = [i \in 1..n |-> items[i][2]]
            /\ ret.method = "items" => ret.value = items

\* C10's case: two pairs of one name and different values, read by the name.
C10_Witness ==
    /\ ret.method = "row[]" /\ ret.key = NameKey("id")
    /\ Len(row.items) = 2
    /\ row.items[1][1] = "id" /\ row.items[2][1] = "id"
    /\ row.items[1][2] # row.items[2][2]
    /\ ret.value = Some(row.items[1][2])

\* ------------------------------------------------- the routing claim
\* The statements of CursorOps and of the batches begin with their first
\* token: the token, upper-cased.
FirstToken(op) == upper(op[1])

\* C14: every request a cursor operation sends goes to the query endpoint
\* when the statement's first whitespace-delimited token is, whatever its
\* case, SELECT or PRAGMA, and to the execute endpoint for every other
\* statement, whether execute or executemany sends it.
C14_Routing ==
    \A i \in 1..Len(wire) :
        wire[i].path = IF FirstToken(operation) \in {"SELECT", "PRAGMA"}
                       THEN "/db/query?" ELSE "/db/execute?transaction"

\* ------------------------------------- the remote statement error claim
\* the first entry of a results list that carries an error, 0 if none does
FirstError(results) ==
    IF \E i \in 1..Len(results) : results[i].error
    THEN CHOOSE i \in 1..Len(results) :
            /\ results[i].error
            /\ \A j \in 1..(i - 1) : ~results[j].error
    ELSE 0

\* the node answered the request of the last call with status 200 and a
\* results list holding an entry with an error
AnsweredWithError ==
    /\ Len(wire) >= 1
    /\ server.status = HTTP_OK
    /\ Response.has_results
    /\ FirstError(Response.results) # 0

Kind(k) == {i \in 1..Len(log) : log[i].kind = k}

\* The requests of a call are told apart by the responses: event i belongs
\* to request n when n - 1 responses precede it.  The send attempts made
\* for request n:
AttemptsOf(n, sends, responses) ==
    {j \in sends : Cardinality({r \in responses : r < j}) = n - 1}

TransportCalls == {"execute", "executemany", "ping"}

\* C11 as stated: one execute or executemany call makes at most 10 send
\* attempts.
C11_RetryBoundPerCall ==
    ret.method \in {"execute", "executemany"} => Len(wire) <= TRIES

\* an attempt that failed and was not the last: closed, reopened, and the
\* same request sent again at once
RetriedAtOnce(i) ==
    /\ i + 3 <= Len(log)
    /\ log[i - 1].kind = "send"
    /\ log[i + 1].kind = "close"
    /\ log[i + 2].kind = "open"
    /\ log[i + 3] = log[i - 1]

\* C11, amended: at most 10 send attempts are made for each request the
\* transport sends, the first one of a call and each one resent to the
\* Location of a redirect counted apart; after every failed attempt except
\* the tenth the transport is closed, reopened and the same request sent
\* again at once; when the tenth attempt fails its exception is raised to
\* the caller.
C11_RetryBound ==
    ret.method \in TransportCalls =>
        LET sends == Kind("send")
            responses == Kind("response")
        IN  /\ \A n \in 1..(Cardinality(responses) + 1) :
                 LET attempts == AttemptsOf(n, sends, responses) IN
                 /\ Cardinality(attempts) <= TRIES
                 /\ \A i \in attempts :
                      /\ i < Len(log)
                      /\ IF Cardinality({j \in attempts : j <= i}) < TRIES
                         THEN \/ log[i + 1].kind = "response"
                              \/ log[i + 1].kind = "except" /\ RetriedAtOnce(i + 1)
                         ELSE \/ log[i + 1].kind = "response"
                              \/ /\ log[i + 1].kind = "raise"
                                 /\ \A j \in (i + 2)..Len(log) :
                                        ret.method = "ping" /\ log[j].kind = "open"
                                 /\ ret.method \in {"execute", "executemany"} =>
                                        ret.exc = "TransportException"
            /\ \A i \in 1..Len(log) :
                 log[i].kind \in {"except", "raise"} => log[i - 1].kind = "send"

\* C11's case: a call redirected to another node after nine failed
\* attempts, whose request to that node fails ten times.
C11_Witness ==
    /\ ret.method = "executemany"
    /\ ret.exc = "TransportException"
    /\ Len(wire) = 2 * TRIES
    /\ Cardinality(Kind("response")) = 1
    /\ log[Len(log)].kind = "raise"
    /\ log[Len(log)].host = "node2"

\* the redirects of the log that were followed: a 301 response after which
\* the request went on, by the close of the transport or by the next send
\* (after the last response of a failed probe, ping opens a transport)
Followed ==
    {i \in Kind("response") :
        /\ log[i].status = MOVED_PERMANENTLY
        /\ i < Len(log)
        /\ log[i + 1].kind \in {"close", "send"}}

\* the Location of response i names another host or port than the
\* transport the response came over
ElsewhereAt(i) ==
    log[i].uri.hostname # Some(log[i].host) \/ log[i].uri.port # Some(log[i].port)

\* event j sends the request answered by response i again, to that
\* response's Location, over a transport to host and port
ResendsTo(j, i, host, port) ==
    /\ log[j].kind = "send"
    /\ log[j].host = host /\ log[j].port = port
    /\ log[j].method = log[i - 1].method
    /\ log[j].body = log[i - 1].body
    /\ log[j].uri = log[i].uri

\* C12: when a request is answered with status 301 and a Location whose
\* host or port differs from the connection's target, the client closes the
\* transport, takes the Location's host and port, opens a new transport and
\* only then sends the same method and body to the Location; when host and
\* port are the same the request is sent again over the existing transport;
\* and when the request sent again is answered with success, execute
\* raises nothing.
C12_LeaderRedirect ==
    ret.method \in TransportCalls =>
        /\ \A i \in Followed :
             /\ log[i - 1].kind = "send"
             /\ IF ElsewhereAt(i)
                THEN /\ i + 3 <= Len(log)
                     /\ log[i + 1].kind = "close"
                     /\ log[i + 1].host = log[i].host /\ log[i + 1].port = log[i].port
                     /\ log[i + 2].kind = "open"
                     /\ Some(log[i + 2].host) = log[i].uri.hostname
                     /\ Some(log[i + 2].port) = log[i].uri.port
                     /\ ResendsTo(i + 3, i, log[i + 2].host, log[i + 2].port)
                ELSE ResendsTo(i + 1, i, log[i].host, log[i].port)
        /\ (/\ ret.method = "execute"
            /\ Followed # {}
            /\ log[Len(log)].kind = "response"
            /\ log[Len(log)].status = HTTP_OK)
           => /\ ret.exc = "none"
              /\ connection.host = log[Len(log)].host
              /\ connection.port = log[Len(log)].port

\* C12's case: an execute redirected from localhost:4001 to node2:4003,
\* redirected there once more to node2:4003, and then answered.
C12_Witness ==
    /\ ret.method = "execute" /\ ret.exc = "none"
    /\ Cardinality(Followed) = 2
    /\ \E i, j \in Followed :
         /\ i < j
         /\ log[i].host = "localhost" /\ ElsewhereAt(i)
         /\ log[j].host = "node2" /\ ~ElsewhereAt(j)
    /\ connection.host = "node2" /\ connection.port = 4003
    /\ cursor.rowcount = 1

\* C13: with max_redirects set to a finite m, one call follows at most m
\* redirects; when the response after the m-th followed redirect is a
\* redirect again, the transport raises nothing and hands that response
\* back as it is, and it is Cursor._request that refuses its status.
C13_RedirectBound ==
    (ret.method \in {"execute", "executemany"}
     /\ connection.max_redirects # UNLIMITED_REDIRECTS)
    =>
        /\ Cardinality(Followed) <= connection.max_redirects
        /\ (/\ Len(log) > 0
            /\ log[Len(log)].kind = "response"
            /\ log[Len(log)].status = MOVED_PERMANENTLY
            /\ log[Len(log)].uri.hostname # None)
           => /\ Cardinality(Followed) = connection.max_redirects
              /\ Kind("raise") = {}
              /\ ret.exc = "Error"
              /\ cursor = NewCursor

\* C13's case: max_redirects 1, a first redirect followed and a second one
\* handed back.
C13_Witness ==
    /\ ret.method = "execute"
    /\ connection.max_redirects = MaxRedirects
    /\ Cardinality(Followed) = MaxRedirects
    /\ Len(network.hops) > MaxRedirects
    /\ log[Len(log)].kind = "response"
    /\ log[Len(log)].status = MOVED_PERMANENTLY
    /\ log[Len(log)].uri.hostname = Some("node2")
    /\ ret.exc = "Error"

\* Error and the classes derived from it
ErrorClasses == {"Error", "InterfaceError", "DatabaseError", "DataError",
                 "OperationalError", "IntegrityError", "InternalError",
                 "ProgrammingError", "NotSupportedError"}

\* C16: after Connection.close() every operation attempted with the
\* connection or a cursor of it (execute, executemany, ping) raises Error or
\* a subclass, and the connection sends no request any more.
C16_ClosedConnection ==
    (closed /\ ret.method \in TransportCalls) =>
        /\ ret.exc \in ErrorClasses
        /\ wire = <<>>

\* ------------------------------------------------------------------ C17
\* the date adapter in use is the built-in one
BuiltinDateAdapter ==
    IF "date" \in DOMAIN adapters THEN adapters["date"] = "_adapt_date"
    ELSE _default_adapters["date"] = "_adapt_date"

\* execute has just run with one parameter, a date, on a node that keeps it
\* unchanged in a column declared date
DateStored ==
    /\ ret.method = "execute"
    /\ server.echo # None
    /\ server.echo[1].types = <<<<"d", "a", "t", "e">>>>
    /\ parameters.kind = "sequence"
    /\ Len(parameters.items) = 1
    /\ parameters.items[1].type = "date"
    /\ BuiltinDateAdapter

\* C17: date round trip.  For every date d, the wire value execute puts
\* into the payload for the parameter d, stored unchanged by the node in a
\* DATE column and passed through the converter chosen for that column, is
\* a date equal to d: execute raises nothing and the one value of the one
\* row it stores is d.
C17_DateRoundTrip ==
    DateStored =>
        /\ ret.exc = "none"
        /\ cursor._rows # None
        /\ Len(cursor._rows[1]) = 1
        /\ cursor._rows[1][1].tuple = <<parameters.items[1]>>

\* What happens instead: the payload holds the date between quote
\* characters, and int() of the first piece of that text is a ValueError.
C17_Observed ==
    DateStored =>
        /\ ret.exc = "ValueError"
        /\ Len(wire) = 1
        /\ wire[1].statements[1].positional
              = <<_escape_string(_adapt_date(parameters.items[1]))>>
        /\ cursor = NewCursor

\* ------------------------------------------------------------------ C18
\* execute has just run a query that the node answers with one column and
\* one row; the column's name, its declared type and the value sent
OneCell ==
    /\ ret.method = "execute"
    /\ operation = <<"select">>
    /\ server.echo = None
    /\ server.query.has_results
    /\ Len(server.query.results) = 1
    /\ server.query.results[1].columns # None
    /\ Len(server.query.results[1].columns[1]) = 1
    /\ server.query.results[1].types # None
    /\ server.query.results[1].values # None
    /\ Len(server.query.results[1].values[1]) = 1
CellName == server.query.results[1].columns[1][1]
CellType == server.query.results[1].types[1][1]
CellValue == server.query.results[1].values[1][1][1]

\* execute ended as the conversion did: with its exception, or with the one
\* row holding its value
EndedAs(conversion) ==
    /\ ret.exc = conversion.exc
    /\ conversion.exc = "none" =>
          /\ cursor._rows # None
          /\ Len(cursor._rows[1]) = 1
          /\ cursor._rows[1][1].tuple = <<conversion.value>>

\* the registry's converter for the name T, given the column's text as
\* bytes decoded from base64 when T is no native name (None stays None)
By(T, value) ==
    IF T \in _native_converters THEN CallConverter(converters[T], value)
    ELSE _decode_base64_converter(converters[T], value)

\* the column name carries a bracketed hint
Hinted(column_name) == Contains(column_name, "[") /\ Contains(column_name, "]")

\* C18: converter precedence.  With both type-detection flags on, a column
\* whose name carries a bracketed hint [T] for which a converter is
\* registered is converted by T's converter, whatever converter is
\* registered or built in for the column's declared type; with the
\* column-name flag off the hint selects nothing: the value is converted as
\* that of the column named without the hint.
C18_HintPrecedence ==
    OneCell =>
        /\ (/\ connection.parse_decltypes /\ connection.parse_colnames
            /\ Hinted(CellName)
            /\ Hint(CellName) \in DOMAIN converters)
           => EndedAs(By(Hint(CellName), CellValue))
        /\ (~connection.parse_colnames /\ Hinted(CellName))
           => EndedAs(ApplyConverter(
                         _convert_to_python(_column_stripper(CellName, TRUE), CellType,
                                            connection.parse_decltypes, FALSE),
                         CellValue))

\* Both flags on, FOO registered with the caller's bracket converter, a
\* column "x [foo]" declared integer holding the base64 of b"xxx": the row
\* holds "[xxx]", which int, the built-in converter of the declared type,
\* never gives.
C18_Witness ==
    /\ OneCell
    /\ connection.parse_decltypes /\ connection.parse_colnames
    /\ CellName = <<"x", " ", "[", "f", "o", "o", "]">>
    /\ CellType = <<"i", "n", "t", "e", "g", "e", "r">>
    /\ <<"F", "O", "O">> \in DOMAIN converters
    /\ converters[<<"F", "O", "O">>].function = "bracket"
    /\ ret.exc = "none"
    /\ cursor._rows[1][1].tuple = <<PyStr(<<"[", "x", "x", "x", "]">>)>>

\* ------------------------------------------------------------------ C19
\* a hint of the column name selects the converter, so the declared type is
\* not looked up
HintWins ==
    connection.parse_colnames /\ Hinted(CellName) /\ Hint(CellName) \in DOMAIN converters

\* the caller has registered the converter the registry holds under a name
Registered(name) ==
    /\ name \in DOMAIN converters
    /\ name \in DOMAIN DefaultConverters => converters[name] # DefaultConverters[name]

\* a column no converter is selected for: a text column is left as it is,
\* any other has its text decoded from base64
Unconverted(type_upper, value) ==
    IF _text_affinity_re(type_upper) THEN [exc |-> "none", value |-> value]
    ELSE _conditional_string_decode_base64(value)

C19_WitnessFlagOff ==
    /\ OneCell
    /\ connection.detect_types = 0
    /\ CellName = <<"x">>
    /\ CellType = <<"n", "u", "m", "b", "e", "r">>
    /\ Registered(<<"N", "U", "M", "B", "E", "R">>)
    /\ converters[<<"N", "U", "M", "B", "E", "R">>].function = "float"
    /\ CellValue = PyInt(5)
    /\ ret.exc = "none"
    /\ cursor._rows[1][1].tuple = <<PyFloat(5)>>

\* ------------------------------------------------------------------ C20
\* execute has just run with one parameter; its value and its exact type
OneParameter ==
    /\ ret.method = "execute"
    /\ operation = <<"select", " ", "?">>
    /\ parameters.kind = "sequence"
    /\ Len(parameters.items) = 1
ParameterValue == parameters.items[1]
ParameterType == parameters.items[1].type

\* the functions register_adapter is called with here
CallerAdapters == {"quote", "cast"}

\* the payload of the one request sent holds, for the parameter, what the
\* adapter gives
SentAs(adapter) ==
    /\ Len(wire) = 1
    /\ wire[1].statements[1].positional = <<Literal(CallAdapter(adapter, ParameterValue))>>

\* C20: adapter registry.  register_adapter(T, f) makes every later
\* adaptation of a value whose exact type is T use f, also when T has a
\* built-in adapter, and removing that registration makes adaptation of T
\* use the built-in adapter again.
C20_AdapterRegistry ==
    OneParameter =>
        /\ (ParameterType \in DOMAIN adapters /\ adapters[ParameterType] \in CallerAdapters)
           => SentAs(adapters[ParameterType])
        /\ (ParameterType \notin DOMAIN adapters /\ ParameterType \in DOMAIN _default_adapters)
           => SentAs(_default_adapters[ParameterType])

\* What holds instead: all of it for every type but str, and a str goes
\* into the payload escaped, whatever the table holds for str.
C20_Observed ==
    OneParameter =>
        /\ (/\ ParameterType # "str"
            /\ ParameterType \in DOMAIN adapters
            /\ adapters[ParameterType] \in CallerAdapters)
           => SentAs(adapters[ParameterType])
        /\ (/\ ParameterType # "str"
            /\ ParameterType \notin DOMAIN adapters
            /\ ParameterType \in DOMAIN _default_adapters)
           => SentAs(_default_adapters[ParameterType])
        /\ ParameterType = "str"
           => /\ Len(wire) = 1
              /\ wire[1].statements[1].positional = <<_escape_string(ParameterValue)>>

\* ------------------------------------------------------------------ C21
\* the converter the module resolves for the column of the answer, with the
\* connection's flags, when its registry is the one given
ResolvedWith(registry) ==
    ConverterFor(registry, CellName, CellType, connection.parse_decltypes,
                 connection.parse_colnames)

\* the registry after register_converter(name, function) and then
\* del converters[NAME]
RegisteredThenDeleted(name, function) ==
    unregister_converter(register_converter(converters, name, function), str_upper(name))

\* C21: converter registration is reversible.  From every registry the
\* program reaches, registering a converter under a type name and then
\* deleting that registration leaves the converter resolved for a column,
\* whatever its name, declared type and the connection's flags, as it was
\* before the registration; also when the name is that of a built-in
\* converter.
C21_RegistrationReversible ==
    \A name \in ConverterNames, function \in ConverterFunctions :
        ResolvedWith(RegisteredThenDeleted(name, function)) = ResolvedWith(converters)

\* What the code does instead: under a name the registry held before, the
\* deletion takes the earlier converter away with the registration; under
\* any other name the registry is back to what it was.
C21_Observed ==
    \A name \in ConverterNames, function \in ConverterFunctions :
        RegisteredThenDeleted(name, function)
            = unregister_converter(converters, str_upper(name))

\* ------------------------------------------------------------------ C22
\* the parameter is no text and its exact type has neither a registered
\* nor a built-in adapter
NoAdapter ==
    /\ ParameterType # "str"
    /\ ParameterType \notin DOMAIN adapters
    /\ ParameterType \notin DOMAIN _default_adapters

\* the one request sent holds, for the parameter, what its method returned
SentBy(method) ==
    /\ ret.exc # "InterfaceError"
    /\ Len(wire) = 1
    /\ wire[1].statements[1].positional = <<Literal(CallMethod(ParameterValue, method))>>

\* C22: unadaptable value.  Adapting a non-text value whose exact type has
\* neither a registered nor a built-in adapter uses the value's __adapt__
\* method if it has one, otherwise its __conform__ method if it has one, and
\* otherwise raises InterfaceError; execute with such a parameter raises
\* InterfaceError and sends nothing.
C22_Unadaptable ==
    (OneParameter /\ NoAdapter) =>
        IF hasattr(ParameterValue, "__adapt__") THEN SentBy("__adapt__")
        ELSE IF hasattr(ParameterValue, "__conform__") THEN SentBy("__conform__")
        ELSE ret.exc = "InterfaceError" /\ wire = <<>>

\* C22's cases: an instance of a class with both methods went out as its
\* __adapt__ gave it; an instance of a class with neither was refused.
C22_Witness ==
    /\ OneParameter /\ NoAdapter
    /\ hasattr(ParameterValue, "__adapt__") /\ hasattr(ParameterValue, "__conform__")
    /\ SentBy("__adapt__")

C22_WitnessRefused ==
    /\ OneParameter /\ NoAdapter
    /\ ParameterValue = PyObject
    /\ ret.exc = "InterfaceError"

\* ------------------------------------------------------------------ C23
\* the one cell of the answer is null and only the built-in converters are
\* registered
NullCell == OneCell /\ CellValue = PyNone /\ converters = DefaultConverters

\* C23: null decoding.  With only the built-in converters registered, a
\* null wire value in a result column is returned as None in the Row, for
\* every declared type of the column and every combination of the
\* type-detection flags, and decoding it never raises.
C23_NullDecoding ==
    NullCell => EndedAs([exc |-> "none", value |-> PyNone])

\* What the code does instead: the same for every column but one declared
\* DATETIME, where execute raises AttributeError.
C23_Observed ==
    NullCell =>
        IF str_upper(CellType) = <<"D", "A", "T", "E", "T", "I", "M", "E">>
        THEN ret.exc = "AttributeError" /\ cursor = NewCursor
        ELSE EndedAs([exc |-> "none", value |-> PyNone])

\* ------------------------------------------------------------------ C24
\* the results of the response that carry columns
WithColumns(results) == {i \in 1..Len(results) : results[i].columns # None}

\* the last call returned a result set: an execute whose response has a
\* result with columns (executemany reads none)
ReturnedResultSet ==
    ret.method = "execute" /\ WithColumns(Response.results) # {}

\* the columns of that result set: those of the last result that has any
ResultColumns ==
    LET last == CHOOSE i \in WithColumns(Response.results) :
                    \A j \in WithColumns(Response.results) : j <= i
    IN  Response.results[last].columns[1]

\* a name up to its first space
FirstWord(name) ==
    IF \E i \in 1..Len(name) : name[i] = " "
    THEN SubSeq(name, 1, (CHOOSE i \in 1..Len(name) :
                              name[i] = " " /\ \A j \in 1..(i - 1) : name[j] # " ") - 1)
    ELSE name

\* C24: cursor description.  After the cursor's most recent execute or
\* executemany returned with no result set, description is None; after an
\* execute that returned a result set it holds one 7-field entry per result
\* column, whose first field is the column name (cut at the first space
\* when the column-name flag is on) and whose other fields are None, also
\* when zero rows were returned.
C24_Description ==
    (ret.method \in {"execute", "executemany"} /\ ret.exc = "none") =>
        IF ReturnedResultSet
        THEN /\ cursor.description # None
             /\ Len(cursor.description[1]) = Len(ResultColumns)
             /\ \A j \in 1..Len(ResultColumns) :
                   cursor.description[1][j] =
                      <<IF connection.parse_colnames THEN FirstWord(ResultColumns[j])
                        ELSE ResultColumns[j],
                        None, None, None, None, None, None>>
        ELSE cursor.description = None

\* What the code does instead: all of it after execute; executemany leaves
\* description as the call before it left it.
C24_Observed ==
    [][(ret'.method = "executemany" /\ ret' # ret)
           => cursor'.description = cursor.description]_vars

C24_ObservedExecute ==
    (ret.method = "execute" /\ ret.exc = "none") => C24_Description

\* ------------------------------------------------------------------ C25
\* Along the events of a call, from the socket the transport had when the
\* call began: a request opens the socket of the transport, close() closes
\* it, and an _init_connection puts a transport without a socket in its
\* place.  Whether the transport has an open socket before the i-th event:
SockBefore(sock, events, i) ==
    LET prior == {j \in 1..(i - 1) : events[j].kind \in {"send", "close", "open"}}
    IN  IF prior = {} THEN sock
        ELSE events[CHOOSE j \in prior : \A k \in prior : k <= j].kind = "send"

\* every _init_connection finds the transport it replaces without an open
\* socket
ClosedBeforeOpened(sock, events) ==
    \A i \in 1..Len(events) :
        events[i].kind = "open" => ~SockBefore(sock, events, i)

\* the events of a call in which a transport is replaced
Replaces(events) == \E i \in 1..Len(events) : events[i].kind = "open"

\* C25: one transport.  A Connection references one transport at every
\* moment, and whenever an operation replaces it (retry after a failed
\* attempt, redirect to another node, reconnect in ping) the old transport
\* has been closed before the new one is opened.
C25_OneTransport ==
    [][/\ DOMAIN connection'._connection = {"host", "port", "sock"}
       /\ ClosedBeforeOpened(connection._connection.sock, log')]_vars

\* What the code does instead: all of it in every operation but ping, which
\* replaces the transport its failed probe left behind without closing it.
C25_Observed ==
    [][ret'.method # "ping" => ClosedBeforeOpened(connection._connection.sock, log')]_vars

\* a retry and a redirect that replaced the transport after closing it
C25_ObservedCase ==
    /\ ret.method = "execute"
    /\ Replaces(log)
    /\ \E i \in 1..Len(log) : log[i].kind = "response" /\ log[i].status = MOVED_PERMANENTLY

\* ------------------------------------------------------------------ C26
\* the state of a connection no operation writes
Settings(self) == <<self.scheme, self._headers, self.timeout, self.max_redirects>>

\* the node a connection addresses
Target(self) == <<self.host, self.port>>

\* the followed redirects of the log that name another node
Redirections == {i \in Followed : ElsewhereAt(i)}

\* the node the last of them names
Redirected ==
    LET last == CHOOSE i \in Redirections : \A j \in Redirections : j <= i
    IN  <<log[last].uri.hostname[1], log[last].uri.port[1]>>

\* the node the first request of the log was sent to
FirstSent ==
    LET first == CHOOSE i \in Kind("send") : \A j \in Kind("send") : i <= j
    IN  <<log[first].host, log[first].port>>

\* C26: connection state frame.  Scheme, auth header, timeout and
\* max-redirects of a connection are changed by no operation, host and port
\* by none except a followed redirect to a different node, which sets them
\* to that node; commit() and rollback() send no request and change
\* nothing; and every request of the connection, from the cursor or from
\* the cursor ping makes, goes first to the host and port the connection
\* has when the call begins, which after a redirect are the new ones.
C26_ConnectionFrame ==
    [][/\ Settings(connection') = Settings(connection)
       /\ Target(connection') = IF Redirections' # {} THEN Redirected' ELSE Target(connection)
       /\ Target(connection'._connection) = Target(connection')
       /\ ret'.method \in {"commit", "rollback"} =>
             /\ wire' = <<>> /\ log' = <<>>
             /\ UNCHANGED <<connection, cursor, closed>>
       /\ Kind("send")' # {} => FirstSent' = Target(connection)]_vars

\* C26's case: a call redirected the connection to node2, a commit followed,
\* and the probe of a later ping went to node2 first.
C26_Witness ==
    /\ ret.method = "ping"
    /\ Target(connection) = <<"node2", 4003>>
    /\ Kind("send") # {}
    /\ FirstSent = <<"node2", 4003>>
    /\ Redirections = {}

C26_WitnessCommit ==
    /\ ret.method = "commit"
    /\ Target(connection) = <<"node2", 4003>>

\* ------------------------------------------------------------------ C27
\* A character is inert when an odd number of backslashes stands right
\* before it: the last of them is a backslash that escapes it.
Escaped(op, i) ==
    LET others == {j \in 1..(i - 1) : op[j] # "\\"}
        run == IF others = {} THEN i - 1
               ELSE i - 1 - (CHOOSE j \in others : \A k \in others : k <= j)
    IN  run % 2 = 1

\* a character that is read as it stands: not escaped, and no backslash
Plain(op, i) == ~Escaped(op, i) /\ op[i] # "\\"

\* a quote character that opens or closes a literal
IsQuote(op, i) == Plain(op, i) /\ op[i] \in {"'", "\""}

\* The literal spans from position i on: a literal runs from the first quote
\* to the next quote of the same kind, or to the end of the statement when
\* there is none.
RECURSIVE LiteralSpans(_, _)
LiteralSpans(op, i) ==
    LET opens == {q \in i..Len(op) : IsQuote(op, q)} IN
    IF opens = {} THEN {}
    ELSE LET q == CHOOSE o \in opens : \A k \in opens : o <= k
             closes == {c \in (q + 1)..Len(op) : IsQuote(op, c) /\ op[c] = op[q]}
         IN  IF closes = {} THEN q..Len(op)
             ELSE LET c == CHOOSE e \in closes : \A k \in closes : e <= k
                  IN  (q..c) \cup LiteralSpans(op, c + 1)

\* the statement without its literal spans and its inert characters
WithoutLiterals(op) ==
    LET kept == {i \in 1..Len(op) : Plain(op, i) /\ i \notin LiteralSpans(op, 1)}
    IN  [n \in 1..Cardinality(kept) |->
            op[CHOOSE i \in kept : Cardinality({j \in kept : j <= i}) = n]]

\* C27: literal stripping.  Placeholder counting ignores every '?' and
\* ':name' inside a single-quoted or double-quoted string literal, a
\* backslash making the next character inert: the positional and the named
\* markers the binder counts in a statement are those of the statement with
\* its literal spans removed, and a statement whose only markers are inside
\* literals is accepted by execute with no parameters.
C27_LiteralStripping ==
    ret.method = "execute" =>
        /\ Len(_get_qmark_params(operation))
              = PositionalMarkers(WithoutLiterals(operation))
        /\ Len(_get_named_params(operation))
              = Cardinality(MarkerStarts(WithoutLiterals(operation)))
        /\ (/\ PositionalMarkers(WithoutLiterals(operation)) = 0
            /\ MarkerStarts(WithoutLiterals(operation)) = {}
            /\ parameters = NoParameters)
           => (ret.exc = "none" /\ Len(wire) = 1)

\* C27's case: a '?' in a literal that goes on after an escaped quote, in a
\* statement run without parameters.
C27_Witness ==
    /\ ret.method = "execute" /\ ret.exc = "none"
    /\ parameters = NoParameters
    /\ \E i \in LiteralSpans(operation, 1) :
         /\ operation[i] = "?"
         /\ \E j \in 1..(i - 1) : operation[j] \in {"'", "\""} /\ Escaped(operation, j)

\* a named marker inside a double-quoted literal
C27_WitnessNamed ==
    /\ ret.method = "execute" /\ ret.exc = "none"
    /\ parameters = NoParameters
    /\ operation = <<"insert", " ", "\"", ":", "a", "\"">>

\* ------------------------------------------------------------------ C28
\* The loop of fetchall and of the iteration goes on while rownumber is below
\* rowcount, and only a row that fetchone returns moves rownumber: with no
\* row left to return below rowcount, the loop goes round for ever.
Spins ==
    /\ cursor.rownumber < cursor.rowcount
    /\ fetchone(cursor).result = None

\* C28: fetchall and iteration terminate.  In every cursor state reached by
\* execute (of any statement kind), executemany, fetchone, fetchmany,
\* fetchall, iteration and Cursor.close, a call of fetchall returns and the
\* iteration over the cursor ends after finitely many items: no call is
\* left inside its loop, and the cursor is never in a state in which the
\* loop would go round without end.
C28_FetchTerminates ==
    /\ ~hung
    /\ ret.exc # "never returns"
    /\ ~Spins

\* What the code does instead: the loops end exactly when the cursor holds
\* as many rows as rowcount says, and a fetchall begun in any other state
\* never returns.
C28_Observed ==
    [][(ret'.method = "fetchall" /\ ret' # ret) => (hung' <=> Spins)]_vars

\* an UPDATE the node reports rows affected for, and a fetchall after it
C28_ObservedCase ==
    /\ hung
    /\ IsUpdateOrDelete(operation)
    /\ cursor.rowcount > 0 /\ cursor._rows = Some(<<>>)

\* ------------------------------------------------------------------ C29
\* C29: a failed call leaves the cursor unchanged.  Whenever execute or
\* executemany raises (a statement that is no str, a binding or adaptation
\* error, a transport error after all retries, a final status other than
\* 200, an error entry in the envelope, a converter failing while the rows
\* are decoded), the cursor's rows, rownumber, rowcount, description and
\* lastrowid are what they were before the call.
C29_FailedCallFrame ==
    [][(ret'.method \in {"execute", "executemany"} /\ ret'.exc # "none")
          => cursor' = cursor]_vars

\* C29's case: an executemany that raised over an error entry, on a cursor
\* that holds the result set of an execute.
C29_Witness ==
    /\ ret.method = "executemany" /\ ret.exc = "ProgrammingError"
    /\ Len(wire) = 1
    /\ cursor._rows # None /\ cursor.description # None

\* an execute in which a converter raised, on a cursor an executemany has
\* left its count in
C29_WitnessConverter ==
    /\ ret.method = "execute" /\ ret.exc = "ValueError" /\ IsString(operation)
    /\ Len(wire) = 1
    /\ cursor._rows = Some(<<>>) /\ cursor.rowcount = 1

\* ------------------------------------------------------------------ C30
\* _init_connection(): the connection with a new transport in place of its own
Reconnected(self) ==
    [self EXCEPT !._connection = HTTPConnection(self.host, self.port)]

\* the probe query ping sends on a connection, through a cursor of its own
Probe(self) ==
    execute(NewCursor, self, network, <<"SELECT", " ", "1">>, NoParameters, server)

\* the first probe of ping(reconnect=True) on the connection as it is now
FirstProbe ==
    Probe(IF connection._connection.sock THEN connection ELSE Reconnected(connection))

\* C30: ping recovery.  In ping(reconnect=True), if the first probe query
\* fails, the transport is replaced and a second probe is sent, and ping
\* returns normally whenever that second probe succeeds;
\* ping(reconnect=False) on a connection whose transport has no open socket
\* raises Error without sending a request.
C30_PingRecovery ==
    /\ FirstProbe.exc # "none" =>
          /\ Len(Sends(ping(connection, network, server, TRUE).log))
                > Len(Sends(FirstProbe.log))
          /\ Probe(Reconnected(FirstProbe.connection)).exc = "none"
                => ping(connection, network, server, TRUE).exc = "none"
    /\ ~connection._connection.sock =>
          /\ ping(connection, network, server, FALSE).exc = "Error"
          /\ Sends(ping(connection, network, server, FALSE).log) = <<>>

\* What the code does instead: after a failed first probe the transport is
\* replaced and ping(False) is called, which finds the new transport
\* without a socket and raises Error("Already closed"): no second probe is
\* sent.  The reconnect=False half holds.
C30_Observed ==
    /\ FirstProbe.exc # "none" =>
          /\ Sends(ping(connection, network, server, TRUE).log) = Sends(FirstProbe.log)
          /\ ping(connection, network, server, TRUE).exc = "Error"
          /\ ping(connection, network, server, TRUE).args = <<"Already closed">>
          /\ ~ping(connection, network, server, TRUE).connection._connection.sock
    /\ ~connection._connection.sock =>
          /\ ping(connection, network, server, FALSE).exc = "Error"
          /\ Sends(ping(connection, network, server, FALSE).log) = <<>>

\* a ping that raised Already closed after its probe had been sent
C30_ObservedCase ==
    /\ ret.method = "ping" /\ ret.exc = "Error" /\ ret.value = <<"Already closed">>
    /\ wire # <<>>
    /\ log[Len(log)].kind = "open"

====
